---------------------------- MODULE Spec2Model ----------------------------
(***************************************************************************)
(* A model of the sparkles rule engine: the weighted scoring of condition  *)
(* trees (Rule.evaluate, Condition.evaluate, Operator.evaluate), the       *)
(* engine's run loop over priority buckets (Engine.run, evaluateRules,     *)
(* stop), the almanac's fact cache (Almanac.factValue) and the validation  *)
(* engine's classification loop (ValidateEngine.findSatisfiedRules).       *)
(*                                                                         *)
(* Numbers.  A JavaScript number is modelled as a pair <<n, d>>: the       *)
(* rational n/d in lowest terms with d > 0, or NaN == <<0, 0>>.  Rounding  *)
(* of IEEE doubles is not modelled; NaN and its comparison rules are.      *)
(***************************************************************************)
EXTENDS Integers, Sequences, FiniteSets, TLC

\* ------------------------------------------------------------- bounds
MaxKids == 2        \* children of one all/any node
MaxWeight == 2      \* condition weights 1..MaxWeight
MaxPriority == 2    \* condition, fact and rule priorities 1..MaxPriority
MaxDepth == 2       \* nesting depth of boolean nodes
NumRules == 3       \* rules added to the engine
NumParams == 2      \* distinct params objects a fact is requested with
MaxComputations == 4 \* fact computations invoked on one almanac
MaxRequests == 3    \* factValue requests per (factId, params)
MaxStack == 4       \* frames of realize the call stack holds

\* ------------------------------------------------------------ numbers
NaN == <<0, 0>>
Zero == <<0, 1>>
One == <<1, 1>>
Half == <<1, 2>>

IsNaN(q) == q[2] = 0

Abs(n) == IF n < 0 THEN -n ELSE n

RECURSIVE Gcd(_, _)
Gcd(a, b) == IF b = 0 THEN a ELSE Gcd(b, a % b)

\* n/d (d >= 0) in lowest terms; a zero denominator is NaN
Norm(q) ==
    IF q[2] = 0 THEN NaN
    ELSE LET g == Gcd(Abs(q[1]), q[2]) IN <<q[1] \div g, q[2] \div g>>

\* JavaScript's a >= b, a > b, a < b: false as soon as one side is NaN
Geq(a, b) == ~IsNaN(a) /\ ~IsNaN(b) /\ a[1] * b[2] >= b[1] * a[2]
Gt(a, b) == ~IsNaN(a) /\ ~IsNaN(b) /\ a[1] * b[2] > b[1] * a[2]
Lt(a, b) == ~IsNaN(a) /\ ~IsNaN(b) /\ a[1] * b[2] < b[1] * a[2]

\* JavaScript's score * weight, a + b, total / weight (weight a positive integer)
Times(a, w) == IF IsNaN(a) THEN NaN ELSE Norm(<<a[1] * w, a[2]>>)
Plus(a, b) ==
    IF IsNaN(a) \/ IsNaN(b) THEN NaN
    ELSE Norm(<<a[1] * b[2] + b[1] * a[2], a[2] * b[2]>>)
Over(a, w) == IF IsNaN(a) THEN NaN ELSE Norm(<<a[1], a[2] * w>>)

\* Math.min and Math.max: NaN as soon as one argument is NaN
MathMin(a, b) == IF IsNaN(a) \/ IsNaN(b) THEN NaN ELSE IF Lt(b, a) THEN b ELSE a
MathMax(a, b) == IF IsNaN(a) \/ IsNaN(b) THEN NaN ELSE IF Gt(b, a) THEN b ELSE a

InUnit(q) == Geq(q, Zero) /\ Geq(One, q)

\* ---------------------------------------------------------- variables
VARIABLES
    kids,       \* the evaluated sibling conditions, in declaration order
    leaf,       \* the last leaf evaluation (Condition.evaluate)
    node,       \* the boolean node just evaluated: its operator, its number of
                \* sub-conditions and, for `not`, the score of its sub-condition
    rulePriority, \* engine.rules[r].priority
    status,     \* engine.status
    orderedSets,\* the priority buckets of the run, highest first
    cursor,     \* the bucket the run's promise chain has reached
    phase,      \* where the run stands in that bucket
    rs,         \* where each rule's evaluation stands
    ruleScore,  \* ruleResult.score of each rule evaluated
    ruleResults,\* almanac.ruleResults
    events,     \* almanac.events
    emitted,    \* per rule, the events the engine has emitted for it, in order
    runFuture,  \* the promise run() returned
    bundle,     \* what that promise resolved with
    stopInfo,   \* whether and when stop() was called
    errors,     \* the errors thrown during the run, in order: by which rule's evaluation or handler
    runError,   \* the error the promise run() returned rejected with
    factResultsCache, \* almanac.factResultsCache: cache key -> the promise stored
    promises,   \* the promises made by the fact computations, in order of invocation
    received,   \* which promise the factValue requests for (factId, params) were given
    requests,   \* how many factValue requests were made for (factId, params)
    rules,      \* validateEngine.rules: the conditions of each rule
    call,       \* the findSatisfiedRules call: its arguments and the rule it has reached
    analysis,   \* the four lists findSatisfiedRules fills
    summary,    \* the summary of the analysis returned
    ruleEngine, \* rule.engine: the engine each rule of the validate engine is bound to
    temporaryRuns, \* per rule, the outcomes of the runs of temporary engines made for it
    laterRun,   \* how run() on the original engine ends after the classification
    missingLeaf, \* the leaf a default value is synthesized for: its operator and value
    defaultValue, \* the value the leaf's fact is set to: the one _getBuiltInDefaultValue
                \* returned for the leaf, or the fact value of the run
    evaluated,  \* how evaluating the leaf on the default value ended
    engine,     \* an engine with its rules, named conditions, registered facts and options
    runtimeFacts, \* the facts given to each run(facts) of that engine
    order,      \* the order in which the evaluations of the rules settle, the same in every run
    almanac,    \* the almanac of the run under way: its facts, rule results and events
    run,        \* the run under way: the rules evaluating, the position reached, its future
    runReturns, \* what the runs of the engine returned, in order
    overlay,    \* an engine fact and a runtime fact of one id in the almanac of a run:
                \* the almanac's factMap and factResultsCache, and what factValue returned
    ruleList,   \* engine.rules in insertion order, each rule's priority, the cached
                \* engine.prioritizedRules, and the buckets the last run evaluated
    overlapping, \* two run() calls on one engine: engine.status, and for each call
                \* the bucket its chain has reached and the rules it evaluated
    realization \* the named conditions of an engine and the evaluation of a rule
                \* over them: the references being realized and how it ended

scoreVars == <<kids, leaf, node>>
engineVars == <<rulePriority, status, orderedSets, cursor, phase, rs, ruleScore, ruleResults,
                events, emitted, runFuture, bundle, stopInfo, errors, runError>>
almanacVars == <<factResultsCache, promises, received, requests>>
validateVars == <<rules, call, analysis, summary, ruleEngine, temporaryRuns, laterRun>>
defaultVars == <<missingLeaf, defaultValue, evaluated>>
rerunVars == <<engine, runtimeFacts, order, almanac, run, runReturns>>
extraVars == <<overlay, ruleList, overlapping, realization>>
firstVars == <<scoreVars, engineVars, almanacVars, validateVars, defaultVars, rerunVars>>
vars == <<kids, leaf, node, factResultsCache, promises, received, requests,
          rules, call, analysis, summary, ruleEngine, temporaryRuns, laterRun, rulePriority,
          status, orderedSets, cursor, phase, rs, ruleScore,
          ruleResults, events, emitted, runFuture, bundle, stopInfo, errors, runError,
          missingLeaf, defaultValue, evaluated, engine, runtimeFacts, order, almanac, run, runReturns,
          overlay, ruleList, overlapping, realization>>

\* ------------------------------------------------------------ scoring
\* The numbers an operator callback may return: below 0, inside [0,1], above 1, NaN
CallbackReturns == {<<-1, 1>>, Zero, Half, One, <<2, 1>>, NaN}

NoLeaf == [kind |-> "none", valid |-> TRUE, cb |-> Zero, score |-> Zero, result |-> FALSE]
NoNode == [kind |-> "none", k |-> 0, child |-> Zero]

\* Operator.evaluate: 0 when the validator rejects, else the callback's value clamped
OperatorEvaluate(valid, cb) ==
    IF ~valid THEN Zero ELSE MathMax(Zero, MathMin(One, cb))

\* conditions[i].weight || 1   (0 stands for a weight that is not given)
WeightOr1(c) == IF c.weight = 0 THEN 1 ELSE c.weight

\* Rule.prioritizeConditions: the condition's own priority, else its fact's, else 1
ConditionPriority(c) ==
    IF c.priority # 0 THEN c.priority
    ELSE IF c.factPriority # 0 THEN c.factPriority ELSE 1

RECURSIVE SelectSeqByPriority(_, _)
SelectSeqByPriority(conds, p) ==
    IF conds = <<>> THEN <<>>
    ELSE IF ConditionPriority(Head(conds)) = p
         THEN <<Head(conds)>> \o SelectSeqByPriority(Tail(conds), p)
         ELSE SelectSeqByPriority(Tail(conds), p)

\* the priority sets, highest first, flattened: prioritizeConditions(c).flat()
RECURSIVE PrioritizeFrom(_, _)
PrioritizeFrom(conds, p) ==
    IF p = 0 THEN <<>>
    ELSE SelectSeqByPriority(conds, p) \o PrioritizeFrom(conds, p - 1)

PrioritizeConditions(conds) == PrioritizeFrom(conds, MaxPriority + 1)

\* evaluateAll: the loop from i = 1 over (conditionScores, conditions)
RECURSIVE AllLoop(_, _, _, _)
AllLoop(conds, i, totalWeightedScore, totalWeight) ==
    IF i > Len(conds) THEN Over(totalWeightedScore, totalWeight)
    ELSE AllLoop(conds, i + 1,
                 Plus(totalWeightedScore, Times(conds[i].score, WeightOr1(conds[i]))),
                 totalWeight + WeightOr1(conds[i]))

EvaluateAllUnweighted(conds) ==
    IF Len(conds) = 0 THEN One
    ELSE AllLoop([i \in 1..Len(conds) |-> [conds[i] EXCEPT !.weight = 1]], 2,
                 conds[1].score, 1)
EvaluateAll(conds) ==
    IF Len(conds) = 0 THEN One
    ELSE AllLoop(conds, 2, Times(conds[1].score, WeightOr1(conds[1])), WeightOr1(conds[1]))

\* evaluateAny: the loop from i = 1, keeping the first maximal weighted score
RECURSIVE AnyLoop(_, _, _, _)
AnyLoop(conds, i, maxWeightedScore, maxWeight) ==
    IF i > Len(conds) THEN Over(maxWeightedScore, maxWeight)
    ELSE LET weight == WeightOr1(conds[i])
             weightedScore == Times(conds[i].score, weight)
         IN IF Gt(weightedScore, maxWeightedScore)
            THEN AnyLoop(conds, i + 1, weightedScore, weight)
            ELSE AnyLoop(conds, i + 1, maxWeightedScore, maxWeight)

EvaluateAny(conds) ==
    IF Len(conds) = 0 THEN Zero
    ELSE AnyLoop(conds, 2, Times(conds[1].score, WeightOr1(conds[1])), WeightOr1(conds[1]))

\* not: score >= 1 ? 0 : 1
EvaluateNotComplement(score) == Plus(One, Times(score, -1))
EvaluateNot(score) == IF Geq(score, One) THEN Zero ELSE One

\* ---------------------------------------------- scoring: the actions
\* The scoring of one rule's condition tree, bottom up: a leaf is evaluated and
\* joins its siblings; all / any / not evaluates the last k siblings as its
\* sub-conditions and takes their place, carrying its score. A node of depth
\* MaxDepth is the root of the tree.
NoPriority == 0
NoWeight == 0

Child(score, weight, priority, factPriority, depth) ==
    [score |-> score, result |-> Geq(score, One), weight |-> weight,
     priority |-> priority, factPriority |-> factPriority, depth |-> depth]

LastK(s, k) == SubSeq(s, Len(s) - k + 1, Len(s))
FirstBut(s, k) == SubSeq(s, 1, Len(s) - k)

RECURSIVE MaxDepthOf(_)
MaxDepthOf(s) ==
    IF s = <<>> THEN 0
    ELSE LET m == MaxDepthOf(Tail(s)) IN IF Head(s).depth > m THEN Head(s).depth ELSE m

\* Condition.evaluate and the leaf branch of evaluateCondition
EvaluateLeaf(valid, cb, weight, priority, factPriority) ==
    /\ Len(kids) < MaxKids
    /\ MaxDepthOf(kids) < MaxDepth
    /\ LET score == OperatorEvaluate(valid, cb)
       IN /\ leaf' = [kind |-> "leaf", valid |-> valid, cb |-> cb, score |-> score,
                      result |-> Geq(score, One)]
          /\ kids' = Append(kids, Child(score, weight, priority, factPriority, 0))
    /\ node' = NoNode
    /\ UNCHANGED <<engineVars, almanacVars, validateVars, defaultVars, rerunVars, extraVars>>

\* the boolean branch of evaluateCondition over the last k siblings
EvaluateBoolean(operator, k, weight, priority) ==
    /\ k <= Len(kids)
    /\ Len(kids) - k < MaxKids
    /\ operator = "not" => k = 1
    /\ MaxDepthOf(LastK(kids, k)) < MaxDepth
    /\ MaxDepthOf(LastK(kids, k)) + 1 = MaxDepth => k = Len(kids) /\ weight = 1 /\ priority = 1
    /\ LET subConditions == LastK(kids, k)
           conditions == IF operator = "not" THEN subConditions
                         ELSE PrioritizeConditions(subConditions)
           comparisonValue ==
               IF operator = "all" THEN EvaluateAll(conditions)
               ELSE IF operator = "any" THEN EvaluateAny(conditions)
               ELSE EvaluateNot(conditions[1].score)
       IN kids' = Append(FirstBut(kids, k),
                         Child(comparisonValue, weight, priority, NoPriority,
                               MaxDepthOf(subConditions) + 1))
    /\ node' = [kind |-> operator, k |-> k,
                 child |-> IF operator = "not" THEN kids[Len(kids)].score ELSE Zero]
    /\ leaf' = NoLeaf
    /\ UNCHANGED <<engineVars, almanacVars, validateVars, defaultVars, rerunVars, extraVars>>

all == \E k \in 0..MaxKids, w \in 1..MaxWeight, p \in 1..MaxPriority :
           EvaluateBoolean("all", k, w, p)
any == \E k \in 0..MaxKids, w \in 1..MaxWeight, p \in 1..MaxPriority :
           EvaluateBoolean("any", k, w, p)
not == \E w \in 1..MaxWeight, p \in 1..MaxPriority : EvaluateBoolean("not", 1, w, p)

\* a leaf's own priority, or none and then its fact's registered priority (or none)
LeafPriorities ==
    {<<p, NoPriority>> : p \in 1..MaxPriority} \cup {<<NoPriority, f>> : f \in 0..MaxPriority}

EvaluateCondition ==
    \E valid \in BOOLEAN, cb \in CallbackReturns, w \in 0..MaxWeight, pp \in LeafPriorities :
        EvaluateLeaf(valid, cb, w, pp[1], pp[2])

\* -------------------------------------------------------------- engine
Rules == 1..NumRules

READY == "READY"
RUNNING == "RUNNING"
FINISHED == "FINISHED"

NoStop == [called |-> FALSE, bucket |-> 0, during |-> FALSE, begun |-> {}]
NoBundle == [results |-> <<>>, failureResults |-> <<>>]
NoError == [rule |-> 0, from |-> "none"]

\* Engine.constructor and addRule: the rules are added, each with a priority >= 1
EngineInit ==
    /\ rulePriority \in [Rules -> 1..MaxPriority]
    /\ status = READY
    /\ orderedSets = <<>>
    /\ cursor = 0
    /\ phase = "idle"
    /\ rs = [r \in Rules |-> "idle"]
    /\ ruleScore = [r \in Rules |-> Zero]
    /\ ruleResults = <<>>
    /\ events = [success |-> <<>>, failure |-> <<>>]
    /\ emitted = [r \in Rules |-> <<>>]
    /\ runFuture = "none"
    /\ bundle = NoBundle
    /\ stopInfo = NoStop
    /\ errors = <<>>
    /\ runError = NoError

\* the rules of priority p, in insertion order
RECURSIVE RulesOfPriority(_, _, _)
RulesOfPriority(prio, p, r) ==
    IF r > NumRules THEN <<>>
    ELSE IF prio[r] = p THEN <<r>> \o RulesOfPriority(prio, p, r + 1)
         ELSE RulesOfPriority(prio, p, r + 1)

\* Engine.prioritizeRules: one set per priority in use, highest priority first
RECURSIVE PrioritizeRulesFrom(_, _)
PrioritizeRulesFrom(prio, p) ==
    IF p = 0 THEN <<>>
    ELSE IF RulesOfPriority(prio, p, 1) = <<>> THEN PrioritizeRulesFrom(prio, p - 1)
         ELSE <<RulesOfPriority(prio, p, 1)>> \o PrioritizeRulesFrom(prio, p - 1)

PrioritizeRules(prio) == PrioritizeRulesFrom(prio, MaxPriority + 1)

Range(s) == {s[i] : i \in 1..Len(s)}

\* Engine.run up to the promise it returns: the buckets start in later microtasks
Run ==
    /\ runFuture = "none"
    /\ status' = RUNNING
    /\ orderedSets' = PrioritizeRules(rulePriority)
    /\ cursor' = 1
    /\ phase' = "then"
    /\ runFuture' = "pending"
    /\ UNCHANGED <<rulePriority, rs, ruleScore, ruleResults, events, emitted, bundle, stopInfo>>
    /\ UNCHANGED <<errors, runError>>
    /\ UNCHANGED <<scoreVars, almanacVars, validateVars, defaultVars, rerunVars, extraVars>>

\* Engine.stop, called between two steps of the run (from a handler, a timer, the caller)
Stop ==
    /\ status = RUNNING
    /\ phase \in {"then", "all"}
    /\ status' = FINISHED
    /\ stopInfo' = [called |-> TRUE, bucket |-> cursor, during |-> phase = "all",
                    begun |-> {r \in Rules : rs[r] # "idle"}]
    /\ UNCHANGED <<rulePriority, orderedSets, cursor, phase, rs, ruleScore, ruleResults, events,
                   emitted, runFuture, bundle>>
    /\ UNCHANGED <<errors, runError>>
    /\ UNCHANGED <<scoreVars, almanacVars, validateVars, defaultVars, rerunVars, extraVars>>

\* Engine.evaluateRules: the synchronous map over one bucket. Each rule is skipped
\* when the engine is not RUNNING, else rule.evaluate starts, which calls the
\* dynamic facts of its leaves; stopAt = j > 0 is the fact computation of the j-th
\* rule calling engine.stop().
EvaluateRulesIgnoringStatus(stopAt) ==
    /\ phase = "then"
    /\ cursor <= Len(orderedSets)
    /\ stopAt = 0
    /\ rs' = [r \in Rules |-> IF r \in Range(orderedSets[cursor]) THEN "evaluating" ELSE rs[r]]
    /\ phase' = "all"
    /\ UNCHANGED <<rulePriority, status, orderedSets, cursor, ruleScore, ruleResults, events,
                   emitted, runFuture, bundle, stopInfo>>
    /\ UNCHANGED <<errors, runError>>
    /\ UNCHANGED <<scoreVars, almanacVars, validateVars, defaultVars, rerunVars, extraVars>>
EvaluateRules(stopAt) ==
    /\ phase = "then"
    /\ cursor <= Len(orderedSets)
    /\ LET set == orderedSets[cursor]
           started == IF status # RUNNING THEN {}
                      ELSE IF stopAt = 0 THEN Range(set)
                      ELSE {set[i] : i \in 1..stopAt}
       IN /\ stopAt <= Len(set)
          /\ stopAt > 0 => status = RUNNING
          /\ rs' = [r \in Rules |-> IF r \in started THEN "evaluating"
                                    ELSE IF r \in Range(set) THEN "skipped" ELSE rs[r]]
          /\ status' = IF stopAt > 0 THEN FINISHED ELSE status
          /\ stopInfo' = IF stopAt > 0
                         THEN [called |-> TRUE, bucket |-> cursor, during |-> TRUE,
                               begun |-> {r \in Rules : rs[r] # "idle"} \cup started]
                         ELSE stopInfo
    /\ phase' = "all"
    /\ UNCHANGED <<rulePriority, orderedSets, cursor, ruleScore, ruleResults, events, emitted,
                   runFuture, bundle>>
    /\ UNCHANGED <<errors, runError>>
    /\ UNCHANGED <<scoreVars, almanacVars, validateVars, defaultVars, rerunVars, extraVars>>

\* the condition trees of the rules: a passing `all`, a weighted `all` that fails
\* with 2/3, an `any` whose first leaf is NaN, a `not` over a partial score
LeafScoring(cb, weight) ==
    Child(OperatorEvaluate(TRUE, cb), weight, NoPriority, NoPriority, 0)

RuleConditions ==
    { [operator |-> "all", conditions |-> <<LeafScoring(One, NoWeight)>>],
      [operator |-> "all", conditions |-> <<LeafScoring(One, 2), LeafScoring(Zero, NoWeight)>>],
      [operator |-> "any", conditions |-> <<LeafScoring(NaN, NoWeight), LeafScoring(One, NoWeight)>>],
      [operator |-> "not", conditions |-> <<LeafScoring(Half, NoWeight)>>] }

\* Rule.evaluate on the root: any / all / not of the root's sub-conditions
RootScore(c) ==
    IF c.operator = "all" THEN EvaluateAll(PrioritizeConditions(c.conditions))
    ELSE IF c.operator = "any" THEN EvaluateAny(PrioritizeConditions(c.conditions))
    ELSE EvaluateNot(c.conditions[1].score)

\* Rule.evaluate to processScore: the score is known and the rule's own
\* success / failure handlers (onSuccess, onFailure) are invoked
ProcessScore(r, c) ==
    /\ rs[r] = "evaluating"
    /\ ruleScore' = [ruleScore EXCEPT ![r] = RootScore(c)]
    /\ rs' = [rs EXCEPT ![r] = "ruleHandlers"]
    /\ UNCHANGED <<rulePriority, status, orderedSets, cursor, phase, ruleResults, events,
                   emitted, runFuture, bundle, stopInfo>>
    /\ UNCHANGED <<errors, runError>>
    /\ UNCHANGED <<scoreVars, almanacVars, validateVars, defaultVars, rerunVars, extraVars>>

\* Rule.evaluate rejects: an undefined fact, an unknown operator or condition
EvaluateRejects(r) ==
    /\ rs[r] = "evaluating"
    /\ rs' = [rs EXCEPT ![r] = "failed"]
    /\ UNCHANGED <<rulePriority, status, orderedSets, cursor, phase, ruleScore, ruleResults, events,
                   emitted, runFuture, bundle, stopInfo>>
    /\ errors' = Append(errors, [rule |-> r, from |-> "evaluate"])
    /\ UNCHANGED runError
    /\ UNCHANGED <<scoreVars, almanacVars, validateVars, defaultVars, rerunVars, extraVars>>

RuleResult(r) == [rule |-> r, result |-> Geq(ruleScore[r], One), score |-> ruleScore[r]]

\* the then-callback of evaluateRules, once rule.evaluate has resolved (ok) or the
\* rule's own handler has failed (~ok): the result and the event are appended to
\* the almanac and `success` or `failure` is emitted
\* emitAsync(name, ...): the emission and what its handlers find in the almanac
Emission(name, r, results, evts) ==
    [event |-> name,
     inAlmanac |-> /\ \E i \in 1..Len(results) : results[i].rule = r
                   /\ r \in Range(IF name = "failure" THEN evts.failure ELSE evts.success)]

RuleEvaluatedEmitBoth(r, ok) ==
    /\ rs[r] = "ruleHandlers"
    /\ ok
    /\ ruleResults' = Append(ruleResults, RuleResult(r))
    /\ IF RuleResult(r).result
       THEN /\ events' = [events EXCEPT !.success = Append(@, r)]
            /\ emitted' = [emitted EXCEPT ![r] = <<Emission("success", r, ruleResults', events'),
                                                   Emission("type", r, ruleResults', events')>>]
            /\ rs' = [rs EXCEPT ![r] = "success"]
       ELSE /\ events' = [events EXCEPT !.failure = Append(@, r)]
            /\ emitted' = [emitted EXCEPT ![r] = <<Emission("failure", r, ruleResults', events')>>]
            /\ rs' = [rs EXCEPT ![r] = "failure"]
    /\ UNCHANGED <<rulePriority, status, orderedSets, cursor, phase, ruleScore, runFuture, bundle,
                   stopInfo>>
    /\ UNCHANGED <<errors, runError>>
    /\ UNCHANGED <<scoreVars, almanacVars, validateVars, defaultVars, rerunVars, extraVars>>
RuleEvaluated(r, ok) ==
    /\ rs[r] = "ruleHandlers"
    /\ IF ~ok
       THEN /\ rs' = [rs EXCEPT ![r] = "failed"]
            /\ UNCHANGED <<ruleResults, events, emitted>>
       ELSE /\ ruleResults' = Append(ruleResults, RuleResult(r))
            /\ IF RuleResult(r).result
               THEN /\ events' = [events EXCEPT !.success = Append(@, r)]
                    /\ emitted' = [emitted EXCEPT ![r] =
                                       <<Emission("success", r, ruleResults', events')>>]
                    /\ rs' = [rs EXCEPT ![r] = "success"]
               ELSE /\ events' = [events EXCEPT !.failure = Append(@, r)]
                    /\ emitted' = [emitted EXCEPT ![r] =
                                       <<Emission("failure", r, ruleResults', events')>>]
                    /\ rs' = [rs EXCEPT ![r] = "failure"]
    /\ UNCHANGED <<rulePriority, status, orderedSets, cursor, phase, ruleScore, runFuture, bundle,
                   stopInfo>>
    /\ errors' = IF ok THEN errors
                 ELSE Append(errors, [rule |-> r, from |-> IF RuleResult(r).result THEN "onSuccess" ELSE "onFailure"])
    /\ UNCHANGED runError
    /\ UNCHANGED <<scoreVars, almanacVars, validateVars, defaultVars, rerunVars, extraVars>>

\* the futures of the `success` handlers have settled: the event type is emitted
SuccessHandlersSettled(r, ok) ==
    /\ rs[r] = "success"
    /\ IF ok
       THEN /\ emitted' = [emitted EXCEPT ![r] = Append(@, Emission("type", r, ruleResults, events))]
            /\ rs' = [rs EXCEPT ![r] = "type"]
       ELSE /\ rs' = [rs EXCEPT ![r] = "failed"]
            /\ UNCHANGED emitted
    /\ UNCHANGED <<rulePriority, status, orderedSets, cursor, phase, ruleScore, ruleResults, events,
                   runFuture, bundle, stopInfo>>
    /\ errors' = IF ok THEN errors ELSE Append(errors, [rule |-> r, from |-> "success"])
    /\ UNCHANGED runError
    /\ UNCHANGED <<scoreVars, almanacVars, validateVars, defaultVars, rerunVars, extraVars>>

\* the futures of the last emission's handlers (`failure`, or the event type) have settled
LastHandlersSettled(r, ok) ==
    /\ rs[r] \in {"type", "failure"}
    /\ rs' = [rs EXCEPT ![r] = IF ok THEN "done" ELSE "failed"]
    /\ UNCHANGED <<rulePriority, status, orderedSets, cursor, phase, ruleScore, ruleResults, events,
                   emitted, runFuture, bundle, stopInfo>>
    /\ errors' = IF ok THEN errors ELSE Append(errors, [rule |-> r, from |-> rs[r]])
    /\ UNCHANGED runError
    /\ UNCHANGED <<scoreVars, almanacVars, validateVars, defaultVars, rerunVars, extraVars>>

\* Promise.all of the bucket resolves and the chain moves to the next bucket
BucketResolved ==
    /\ phase = "all"
    /\ \A r \in Range(orderedSets[cursor]) : rs[r] \in {"done", "skipped"}
    /\ cursor' = cursor + 1
    /\ phase' = "then"
    /\ UNCHANGED <<rulePriority, status, orderedSets, rs, ruleScore, ruleResults, events, emitted,
                   runFuture, bundle, stopInfo>>
    /\ UNCHANGED <<errors, runError>>
    /\ UNCHANGED <<scoreVars, almanacVars, validateVars, defaultVars, rerunVars, extraVars>>

\* the first of the errors thrown by the rules of a bucket
FirstError(errs, set) ==
    errs[CHOOSE i \in 1..Len(errs) :
             errs[i].rule \in set /\ \A j \in 1..(i - 1) : errs[j].rule \notin set]

BucketRejectedSwallowing ==
    /\ phase = "all"
    /\ \E r \in Range(orderedSets[cursor]) : rs[r] = "failed"
    /\ cursor' = cursor + 1
    /\ phase' = "then"
    /\ UNCHANGED <<rulePriority, status, orderedSets, rs, ruleScore, ruleResults, events, emitted,
                   runFuture, bundle, stopInfo, errors, runError>>
    /\ UNCHANGED <<scoreVars, almanacVars, validateVars, defaultVars, rerunVars, extraVars>>

\* Promise.all of the bucket rejects with the first failure: .catch(reject) rejects
\* the run and resolves the cursor, so the chain moves to the next bucket
BucketRejected ==
    /\ phase = "all"
    /\ \E r \in Range(orderedSets[cursor]) : rs[r] = "failed"
    /\ runFuture' = IF runFuture = "pending" THEN "rejected" ELSE runFuture
    /\ cursor' = cursor + 1
    /\ phase' = "then"
    /\ UNCHANGED <<rulePriority, status, orderedSets, rs, ruleScore, ruleResults, events, emitted,
                   bundle, stopInfo>>
    /\ runError' = IF runFuture = "pending" THEN FirstError(errors, Range(orderedSets[cursor]))
                   ELSE runError
    /\ UNCHANGED errors
    /\ UNCHANGED <<scoreVars, almanacVars, validateVars, defaultVars, rerunVars, extraVars>>

\* the reduce of Engine.run over almanac.getResults()
RECURSIVE SelectResults(_, _)
SelectResults(results, wanted) ==
    IF results = <<>> THEN <<>>
    ELSE IF Head(results).result = wanted
         THEN <<Head(results)>> \o SelectResults(Tail(results), wanted)
         ELSE SelectResults(Tail(results), wanted)

GroupResultsAllSuccessful(results) == [results |-> results, failureResults |-> <<>>]
GroupResults(results) ==
    [results |-> SelectResults(results, TRUE), failureResults |-> SelectResults(results, FALSE)]

\* the last then-callback of Engine.run: the status is FINISHED and the run resolves
RunCompleted ==
    /\ phase = "then"
    /\ cursor = Len(orderedSets) + 1
    /\ status' = FINISHED
    /\ phase' = "done"
    /\ IF runFuture = "pending"
       THEN runFuture' = "resolved" /\ bundle' = GroupResults(ruleResults)
       ELSE UNCHANGED <<runFuture, bundle>>
    /\ UNCHANGED <<rulePriority, orderedSets, cursor, rs, ruleScore, ruleResults, events, emitted,
                   stopInfo>>
    /\ UNCHANGED <<errors, runError>>
    /\ UNCHANGED <<scoreVars, almanacVars, validateVars, defaultVars, rerunVars, extraVars>>

EngineNext ==
    \/ Run
    \/ Stop
    \/ \E stopAt \in 0..NumRules : EvaluateRules(stopAt)
    \/ \E r \in Rules, c \in RuleConditions : ProcessScore(r, c)
    \/ \E r \in Rules : EvaluateRejects(r)
    \/ \E r \in Rules, ok \in BOOLEAN : RuleEvaluated(r, ok)
    \/ \E r \in Rules, ok \in BOOLEAN : SuccessHandlersSettled(r, ok)
    \/ \E r \in Rules, ok \in BOOLEAN : LastHandlersSettled(r, ok)
    \/ BucketResolved
    \/ BucketRejected
    \/ RunCompleted

\* ------------------------------------------------------------- almanac
\* the dynamic facts of the almanac and their `cache` option
DynamicFacts == {"cached", "uncached"}
FactCache == [f \in DynamicFacts |-> f = "cached"]
Params == 1..NumParams

NoKey == <<>>
NoPromise == 0

\* Fact.getCacheKey: a hash of {id, params} when the fact's cache option is on,
\* undefined otherwise; distinct (id, params) are taken to hash differently
GetCacheKey(f, p) == IF FactCache[f] THEN <<f, p>> ELSE NoKey

CacheKeys == {GetCacheKey(f, p) : f \in DynamicFacts, p \in Params} \ {NoKey}

\* new Almanac(): nothing cached, nothing computed
AlmanacInit ==
    /\ factResultsCache = [k \in CacheKeys |-> NoPromise]
    /\ promises = <<>>
    /\ received = {}
    /\ requests = [k \in DynamicFacts \X Params |-> 0]

\* what fact.calculate(params, almanac) returns: a value, a future still pending,
\* or a future already rejected
CalculateReturns == {"resolved", "pending", "rejected"}

\* Almanac.factValue for a dynamic fact: a cache hit returns the promise stored,
\* a miss invokes the computation and _setFactValue stores its promise under the
\* cache key, if the fact has one
FactValueAlwaysCalculating(f, p, returned) ==
    /\ Len(promises) < MaxComputations
    /\ requests[<<f, p>>] < MaxRequests
    /\ requests' = [requests EXCEPT ![<<f, p>>] = @ + 1]
    /\ promises' = Append(promises, [fact |-> f, params |-> p, state |-> returned])
    /\ received' = received \cup {<<f, p, Len(promises) + 1>>}
    /\ factResultsCache' = IF GetCacheKey(f, p) # NoKey
                           THEN [factResultsCache EXCEPT ![GetCacheKey(f, p)] = Len(promises) + 1]
                           ELSE factResultsCache
    /\ UNCHANGED <<scoreVars, engineVars, validateVars, defaultVars, rerunVars, extraVars>>
FactValue(f, p, returned) ==
    /\ requests[<<f, p>>] < MaxRequests
    /\ requests' = [requests EXCEPT ![<<f, p>>] = @ + 1]
    /\ LET cacheKey == GetCacheKey(f, p)
           cacheVal == IF cacheKey # NoKey THEN factResultsCache[cacheKey] ELSE NoPromise
       IN IF cacheVal # NoPromise
          THEN /\ received' = received \cup {<<f, p, cacheVal>>}
               /\ UNCHANGED <<promises, factResultsCache>>
          ELSE /\ Len(promises) < MaxComputations
               /\ promises' = Append(promises, [fact |-> f, params |-> p, state |-> returned])
               /\ received' = received \cup {<<f, p, Len(promises) + 1>>}
               /\ factResultsCache' = IF cacheKey # NoKey
                                      THEN [factResultsCache EXCEPT ![cacheKey] = Len(promises) + 1]
                                      ELSE factResultsCache
    /\ UNCHANGED <<scoreVars, engineVars, validateVars, defaultVars, rerunVars, extraVars>>

\* a pending future returned by a computation settles
ComputationSettles(i, ok) ==
    /\ i \in 1..Len(promises)
    /\ promises[i].state = "pending"
    /\ promises' = [promises EXCEPT ![i].state = IF ok THEN "resolved" ELSE "rejected"]
    /\ UNCHANGED <<factResultsCache, received, requests>>
    /\ UNCHANGED <<scoreVars, engineVars, validateVars, defaultVars, rerunVars, extraVars>>

AlmanacNext ==
    \/ \E f \in DynamicFacts, p \in Params, returned \in CalculateReturns : FactValue(f, p, returned)
    \/ \E i \in 1..MaxComputations, ok \in BOOLEAN : ComputationSettles(i, ok)

\* ------------------------------------------------------ validate engine
FactIds == {"a", "b"}
NoFact == "none"
\* the fact a call may focus on: a fact of the rules, or one no rule references
FocusedFactIds == FactIds \cup {"other"}

LeafCondition(f, hasValue) == [kind |-> "leaf", fact |-> f, hasValue |-> hasValue]
ConditionReference(name) == [kind |-> "reference", name |-> name]

\* the conditions of the rules classified: no leaves at all, one leaf, one leaf
\* that compares with undefined, a conjunction over both facts, a disjunction
\* with a negation whose leaf compares with undefined, a negation, a conjunction
\* of a leaf and a reference to the condition named "named" set on the engine
RuleTrees ==
    { [kind |-> "all", conditions |-> <<>>],
      [kind |-> "all", conditions |-> <<LeafCondition("a", TRUE)>>],
      [kind |-> "all", conditions |-> <<LeafCondition("a", FALSE)>>],
      [kind |-> "all", conditions |-> <<LeafCondition("a", TRUE), LeafCondition("b", TRUE)>>],
      [kind |-> "any", conditions |-> <<LeafCondition("b", TRUE),
                                       [kind |-> "not", conditions |-> <<LeafCondition("a", FALSE)>>]>>],
      [kind |-> "not", conditions |-> <<LeafCondition("b", TRUE)>>],
      [kind |-> "all", conditions |-> <<LeafCondition("a", TRUE), ConditionReference("named")>>] }

\* ValidateEngine._conditionUsesFact
RECURSIVE ConditionUsesFact(_, _)
ConditionUsesFact(condition, factId) ==
    IF condition.kind = "leaf" THEN condition.fact = factId
    ELSE IF condition.kind = "reference" THEN FALSE
    ELSE \E i \in 1..Len(condition.conditions) : ConditionUsesFact(condition.conditions[i], factId)

\* ValidateEngine._hasConditions
RECURSIVE HasConditions(_)
HasConditions(condition) ==
    IF condition.kind = "leaf" THEN TRUE
    ELSE IF condition.kind = "reference" THEN FALSE
    ELSE \E i \in 1..Len(condition.conditions) : HasConditions(condition.conditions[i])

\* ValidateEngine._extractFactsFromCondition: the facts of the leaves whose value is defined
RECURSIVE ExtractFactsFromCondition(_)
ExtractFactsFromCondition(condition) ==
    IF condition.kind = "leaf" THEN (IF condition.hasValue THEN {condition.fact} ELSE {})
    ELSE IF condition.kind = "reference" THEN {}
    ELSE UNION {ExtractFactsFromCondition(condition.conditions[i]) : i \in 1..Len(condition.conditions)}

\* ValidateEngine._getMissingFactsForRule
GetMissingFactsForRule(condition, facts) == ExtractFactsFromCondition(condition) \ facts

\* the condition references of a tree
RECURSIVE ReferencesOf(_)
ReferencesOf(condition) ==
    IF condition.kind = "leaf" THEN {}
    ELSE IF condition.kind = "reference" THEN {condition.name}
    ELSE UNION {ReferencesOf(condition.conditions[i]) : i \in 1..Len(condition.conditions)}

\* engine.conditions and engine.allowUndefinedConditions of the original engine
\* and of an engine made by _createTemporaryEngine, which copies the operators and
\* the default value providers only
EngineConditions(boundTo) == IF boundTo = "original" THEN {"named"} ELSE {}
EngineAllowUndefinedConditions(boundTo) == FALSE

\* realize: what becomes of a reference, by the conditions and the option of the
\* engine the rule is bound to
RealizeIgnoringOption(name, conditions, allowUndefinedConditions) ==
    IF name \in conditions THEN "evaluate" ELSE "zero"
Realize(name, conditions, allowUndefinedConditions) ==
    IF name \in conditions THEN "evaluate"
    ELSE IF allowUndefinedConditions THEN "zero" ELSE "throw"

\* whether the evaluation of a rule bound to this engine throws on a reference
RuleThrows(r, boundTo) ==
    \E name \in ReferencesOf(rules[r]) :
        Realize(name, EngineConditions(boundTo), EngineAllowUndefinedConditions(boundTo)) = "throw"

NoCall == [state |-> "none", facts |-> {}, focusedFactId |-> NoFact, next |-> 0]
NoAnalysis == [fullySatisfiedRules |-> <<>>, partiallySatisfiedRules |-> <<>>,
               independentRules |-> <<>>, unsatisfiedRules |-> <<>>]
NoSummary == [totalRules |-> 0, fullySatisfied |-> 0, partiallySatisfied |-> 0,
              independent |-> 0, totalSatisfied |-> 0, unsatisfied |-> 0]

\* new ValidateEngine(rules): addRule binds every rule to the engine
ValidateInit ==
    /\ rules \in [Rules -> RuleTrees]
    /\ call = NoCall
    /\ analysis = NoAnalysis
    /\ summary = NoSummary
    /\ ruleEngine = [r \in Rules |-> "original"]
    /\ temporaryRuns = [r \in Rules |-> <<>>]
    /\ laterRun = "none"

\* findSatisfiedRules(facts, focusedFactId) up to its loop
FindSatisfiedRules(facts, focusedFactId) ==
    /\ call.state = "none"
    /\ call' = [state |-> "running", facts |-> facts, focusedFactId |-> focusedFactId, next |-> 1]
    /\ analysis' = NoAnalysis
    /\ UNCHANGED <<rules, summary, ruleEngine, temporaryRuns, laterRun>>
    /\ UNCHANGED <<scoreVars, engineVars, almanacVars, defaultVars, rerunVars, extraVars>>

\* what a run of the temporary engine does: the rule passes, fails, or the run rejects
RunOutcomes == {"pass", "fail", "throw"}

\* the score of a rule that failed in a temporary run
FailureScores == {Zero, Half}

\* a run of a temporary engine rejects when the rule holds a reference, since the
\* temporary engine has no named conditions
TemporaryRunOutcomes(r) == IF RuleThrows(r, "temporary") THEN {"throw"} ELSE RunOutcomes

NoMissingFacts == {}
Entry(r, reason, score, missingFacts) ==
    [rule |-> r, reason |-> reason, score |-> score, missingFacts |-> missingFacts]

\* the second evaluation, with the missing facts filled in with default values
CompleteEvaluationPassingOnError(r, second, missingFacts) ==
    IF second # "fail"
    THEN [list |-> "partiallySatisfiedRules",
          entry |-> Entry(r, "partially_satisfied_missing_facts", Zero, missingFacts)]
    ELSE [list |-> "unsatisfiedRules",
          entry |-> Entry(r, "unsatisfied_condition_mismatch", Zero, NoMissingFacts)]
CompleteEvaluation(r, second, missingFacts) ==
    IF second = "pass"
    THEN [list |-> "partiallySatisfiedRules",
          entry |-> Entry(r, "partially_satisfied_missing_facts", Zero, missingFacts)]
    ELSE [list |-> "unsatisfiedRules",
          entry |-> Entry(r, "unsatisfied_condition_mismatch", Zero, NoMissingFacts)]

\* the body of the loop of findSatisfiedRules for one rule: the list the rule is
\* pushed to and the entry pushed; first and second are the outcomes of the runs
\* of the temporary engines, failureScore the score of the rule when it fails
Classify(r, facts, focusedFactId, first, second, failureScore) ==
    LET conditions == rules[r]
        usesAnyProvidedFact == \E f \in facts : ConditionUsesFact(conditions, f)
        usesFocusedFact == IF focusedFactId # NoFact
                           THEN ConditionUsesFact(conditions, focusedFactId)
                           ELSE usesAnyProvidedFact
        missingFacts == GetMissingFactsForRule(conditions, facts)
        hasMissingFacts == missingFacts # {}
        usesProvidedFacts == usesAnyProvidedFact
        independent(reason, score) ==
            [list |-> "independentRules", entry |-> Entry(r, reason, score, NoMissingFacts)]
        fullySatisfied ==
            [list |-> "fullySatisfiedRules",
             entry |-> Entry(r, "fully_satisfied_with_fact", One, NoMissingFacts)]
    IN IF ~HasConditions(conditions) THEN independent("independent_and_satisfied", One)
       ELSE IF focusedFactId # NoFact /\ ~usesFocusedFact
            THEN independent("independent_and_satisfied", Zero)
       ELSE IF focusedFactId = NoFact /\ ~usesAnyProvidedFact
            THEN independent("independent_and_satisfied", Zero)
       ELSE IF hasMissingFacts /\ usesProvidedFacts
            THEN IF first = "pass" THEN fullySatisfied
                 ELSE CompleteEvaluation(r, second, missingFacts)
       ELSE IF hasMissingFacts /\ ~usesProvidedFacts
            THEN independent("independent_missing_facts", Zero)
       ELSE IF ~usesProvidedFacts THEN independent("independent_and_satisfied", Zero)
       ELSE IF first = "pass" THEN fullySatisfied
            ELSE IF first = "fail"
                 THEN [list |-> "unsatisfiedRules",
                       entry |-> Entry(r, "unsatisfied_condition_mismatch", failureScore,
                                       NoMissingFacts)]
                 ELSE [list |-> "unsatisfiedRules",
                       entry |-> Entry(r, "unsatisfied_evaluation_error", Zero, NoMissingFacts)]

\* the temporary runs the loop body makes for a rule: none for an independent
\* rule, a second one when the rule has missing facts and the first did not pass
TemporaryRuns(r, facts, focusedFactId, first, second) ==
    LET c == Classify(r, facts, focusedFactId, first, second, Zero)
    IN IF c.list = "independentRules" THEN <<>>
       ELSE IF c.entry.reason = "fully_satisfied_with_fact" THEN <<first>>
       ELSE IF GetMissingFactsForRule(rules[r], facts) # {} THEN <<first, second>>
       ELSE <<first>>

\* processScore in a temporary run: the rule emits `success` or `failure` to its
\* own listeners (onSuccess, onFailure)
RuleEmissions(r, runs) ==
    {<<r, "success">> : i \in {k \in 1..Len(runs) : runs[k] = "pass"}}
        \cup {<<r, "failure">> : i \in {k \in 1..Len(runs) : runs[k] = "fail"}}

ruleEmits == UNION {RuleEmissions(r, temporaryRuns[r]) : r \in Rules}

\* one iteration of the loop; _createTemporaryEngine hands the rule itself to the
\* new engine, whose addRule binds the rule to it
ClassifyRuleDroppingErrors(first, second, failureScore) ==
    /\ call.state = "running"
    /\ call.next <= NumRules
    /\ LET c == Classify(call.next, call.facts, call.focusedFactId, first, second, failureScore)
       IN analysis' = IF c.entry.reason = "unsatisfied_evaluation_error" THEN analysis
                      ELSE [analysis EXCEPT ![c.list] = Append(@, c.entry)]
    /\ call' = [call EXCEPT !.next = @ + 1]
    /\ UNCHANGED <<rules, summary, ruleEngine, temporaryRuns, laterRun>>
    /\ UNCHANGED <<scoreVars, engineVars, almanacVars, defaultVars, rerunVars, extraVars>>
ClassifyRule(first, second, failureScore) ==
    /\ call.state = "running"
    /\ call.next <= NumRules
    /\ first \in TemporaryRunOutcomes(call.next)
    /\ second \in TemporaryRunOutcomes(call.next)
    /\ LET r == call.next
           c == Classify(r, call.facts, call.focusedFactId, first, second, failureScore)
           runs == TemporaryRuns(r, call.facts, call.focusedFactId, first, second)
       IN /\ analysis' = [analysis EXCEPT ![c.list] = Append(@, c.entry)]
          /\ ruleEngine' = IF runs # <<>> THEN [ruleEngine EXCEPT ![r] = "temporary"]
                           ELSE ruleEngine
          /\ temporaryRuns' = [temporaryRuns EXCEPT ![r] = runs]
    /\ call' = [call EXCEPT !.next = @ + 1]
    /\ UNCHANGED <<rules, summary, laterRun>>
    /\ UNCHANGED <<scoreVars, engineVars, almanacVars, defaultVars, rerunVars, extraVars>>

\* the return of findSatisfiedRules
ReturnAnalysis ==
    /\ call.state = "running"
    /\ call.next = NumRules + 1
    /\ call' = [call EXCEPT !.state = "returned"]
    /\ summary' = [totalRules |-> NumRules,
                   fullySatisfied |-> Len(analysis.fullySatisfiedRules),
                   partiallySatisfied |-> Len(analysis.partiallySatisfiedRules),
                   independent |-> Len(analysis.independentRules),
                   totalSatisfied |-> Len(analysis.fullySatisfiedRules)
                                        + Len(analysis.partiallySatisfiedRules)
                                        + Len(analysis.independentRules),
                   unsatisfied |-> Len(analysis.unsatisfiedRules)]
    /\ UNCHANGED <<rules, analysis, ruleEngine, temporaryRuns, laterRun>>
    /\ UNCHANGED <<scoreVars, engineVars, almanacVars, defaultVars, rerunVars, extraVars>>

\* run(facts) on the original engine once the classification has returned, with
\* every fact of the rules given: each rule evaluates against the engine it is
\* bound to, and a reference that engine cannot realize rejects the run
RunAfterClassification ==
    /\ call.state = "returned"
    /\ laterRun = "none"
    /\ laterRun' = IF \E r \in Rules : RuleThrows(r, ruleEngine[r]) THEN "rejected" ELSE "resolved"
    /\ UNCHANGED <<rules, call, analysis, summary, ruleEngine, temporaryRuns>>
    /\ UNCHANGED <<scoreVars, engineVars, almanacVars, defaultVars, rerunVars, extraVars>>

ValidateNext ==
    \/ \E facts \in SUBSET FactIds, focusedFactId \in FocusedFactIds \cup {NoFact} :
           FindSatisfiedRules(facts, focusedFactId)
    \/ \E first \in RunOutcomes, second \in RunOutcomes, failureScore \in FailureScores :
           ClassifyRule(first, second, failureScore)
    \/ ReturnAnalysis
    \/ RunAfterClassification

\* ------------------------------------------------- default value synthesis
\* JavaScript values: numbers (integers here), strings (sequences of characters)
\* and arrays of numbers and strings
Num(n) == [type |-> "number", n |-> n]
\* the double n + k * Number.EPSILON, for n = 0 or 1 (Number.EPSILON = 2^-52)
Tiny(n, k) == [type |-> "number", n |-> n, epsilons |-> k]
EpsilonsOf(v) == IF "epsilons" \in DOMAIN v THEN v.epsilons ELSE 0
Str(s) == [type |-> "string", s |-> s]
Arr(items) == [type |-> "array", items |-> items]
NotANumber == [type |-> "NaN"]
Undefined == [type |-> "undefined"]

Digits == <<"0", "1", "2", "3", "4", "5", "6", "7", "8", "9">>
IsDigit(c) == \E d \in 1..10 : Digits[d] = c
DigitValue(c) == (CHOOSE d \in 1..10 : Digits[d] = c) - 1

\* the value of a sequence of digits
RECURSIVE DigitsValue(_)
DigitsValue(s) ==
    IF s = <<>> THEN 0 ELSE 10 * DigitsValue(SubSeq(s, 1, Len(s) - 1)) + DigitValue(s[Len(s)])

\* Number(string), also the conversion `a - b` applies to a string operand
ToNumber(v) ==
    CASE v.type = "number" -> v
      [] v.type = "string" ->
            IF \A i \in 1..Len(v.s) : IsDigit(v.s[i]) THEN Num(DigitsValue(v.s)) ELSE NotANumber
      [] OTHER -> NotANumber

\* the longest prefix of digits of a string
RECURSIVE DigitPrefix(_)
DigitPrefix(s) ==
    IF s = <<>> \/ ~IsDigit(s[1]) THEN <<>> ELSE <<s[1]>> \o DigitPrefix(Tail(s))

\* Number.parseFloat(value)
ParseFloat(v) ==
    CASE v.type = "number" -> v
      [] v.type = "string" ->
            IF DigitPrefix(v.s) = <<>> THEN NotANumber ELSE Num(DigitsValue(DigitPrefix(v.s)))
      [] OTHER -> NotANumber

\* n.toString() of a natural number
RECURSIVE NumberToString(_)
NumberToString(n) == IF n < 10 THEN <<Digits[n + 1]>> ELSE NumberToString(n \div 10) \o <<Digits[(n % 10) + 1]>>

\* string.padStart(2, '0')
PadStart2(s) == IF Len(s) < 2 THEN <<"0">> \o s ELSE s

\* threshold.includes(':')
IncludesColon(s) == \E i \in 1..Len(s) : s[i] = ":"

\* threshold.split(':').map(Number): hours and minutes, the first two parts
ColonAt(s) == CHOOSE i \in 1..Len(s) : s[i] = ":" /\ \A j \in 1..(i - 1) : s[j] # ":"
TotalMinutes(s) ==
    ToNumber(Str(SubSeq(s, 1, ColonAt(s) - 1))).n * 60 + ToNumber(Str(SubSeq(s, ColonAt(s) + 1, Len(s)))).n
FormatTime(minutes) ==
    Str(PadStart2(NumberToString(minutes \div 60)) \o <<":">> \o PadStart2(NumberToString(minutes % 60)))

GetTimeGreaterThan(s) == FormatTime(TotalMinutes(s) + 30)
GetTimeLessThan(s) == FormatTime(IF TotalMinutes(s) - 30 > 0 THEN TotalMinutes(s) - 30 ELSE 0)

GetValueGreaterThan(t) ==
    CASE t.type = "number" -> Num(t.n + 1)
      [] t.type = "string" -> IF IncludesColon(t.s) THEN GetTimeGreaterThan(t.s) ELSE Str(t.s \o <<"1">>)
      [] OTHER -> t

GetValueLessThan(t) ==
    CASE t.type = "number" -> Num(t.n - 1)
      [] t.type = "string" ->
            IF IncludesColon(t.s) THEN GetTimeLessThan(t.s)
            ELSE IF Len(t.s) > 1 THEN Str(SubSeq(t.s, 1, Len(t.s) - 1)) ELSE t
      [] OTHER -> t

GetValueGreaterThanOrEqual(t) == t
GetValueLessThanOrEqual(t) == t

FirstElementOr(t) == IF t.type = "array" /\ Len(t.items) > 0 THEN t.items[1] ELSE t

GetBuiltInDefaultValue(operator, t) ==
    CASE operator = "equal" -> t
      [] operator = "notEqual" ->
            IF t.type = "string" THEN Str(t.s \o <<"_", "d", "i", "f", "f", "e", "r", "e", "n", "t">>)
            ELSE IF t.type = "number" THEN Num(t.n + 1) ELSE NotANumber
      [] operator = "greaterThan" -> GetValueGreaterThan(t)
      [] operator = "lessThan" -> GetValueLessThan(t)
      [] operator = "greaterThanInclusive" -> GetValueGreaterThanOrEqual(t)
      [] operator = "lessThanInclusive" -> GetValueLessThanOrEqual(t)
      [] operator \in {"in", "contains", "includes"} -> FirstElementOr(t)
      [] OTHER -> t

\* a === b on these values: an array is only ever compared with itself
StrictEquals(a, b) == a.type # "NaN" /\ a = b

\* string.indexOf(other) > -1
StringIncludes(s, o) == \E i \in 0..(Len(s) - Len(o)) : SubSeq(s, i + 1, i + Len(o)) = o

\* haystack.indexOf(needle) > -1; indexOf is no function of a number: TypeError
IndexOfThrows(haystack) == haystack.type \notin {"array", "string"}
IndexOfFinds(haystack, needle) ==
    CASE haystack.type = "array" -> \E i \in 1..Len(haystack.items) : StrictEquals(haystack.items[i], needle)
      [] haystack.type = "string" -> needle.type = "string" /\ StringIncludes(haystack.s, needle.s)
      [] OTHER -> FALSE

\* numberValidator: Number.parseFloat(factValue).toString() !== 'NaN'
NumberValidator(factValue) == ParseFloat(factValue).type # "NaN"

\* Math.exp(-Math.max(0, (x - y) / 250 + epsilons * Number.EPSILON)): NaN when an
\* operand is no number, 1 when the exponent is 0, and else a number strictly
\* between 0 and 1, which is kept as a rational that falls as the exponent grows.
\* With x - y = d + t * Number.EPSILON the exponent is positive when d > 0, or
\* d = 0 and t / 250 + epsilons > 0; Math.exp of an exponent of at most
\* Number.EPSILON / 4 is 1 in double arithmetic (1 - z rounds to 1).
ExponentialScoreDecayingAlways(x, y, epsilons) ==
    IF ToNumber(x).type = "NaN" \/ ToNumber(y).type = "NaN" THEN NaN
    ELSE LET d == ToNumber(x).n - ToNumber(y).n
         IN IF d <= 0 /\ epsilons = 0 THEN One
            ELSE <<250, 250 + (IF d > 0 THEN d ELSE 0) + epsilons>>
ExponentialScore(x, y, epsilons) ==
    IF ToNumber(x).type = "NaN" \/ ToNumber(y).type = "NaN" THEN NaN
    ELSE LET d == ToNumber(x).n - ToNumber(y).n
             t == EpsilonsOf(ToNumber(x)) - EpsilonsOf(ToNumber(y))
         IN IF d < 0 THEN One
            ELSE IF d > 0 THEN <<250, 250 + d + epsilons>>
            ELSE IF 4 * (t + 250 * epsilons) <= 250 THEN One
            ELSE <<250, 250 + epsilons>>

OperatorNames ==
    {"equal", "notEqual", "greaterThan", "greaterThanInclusive", "lessThan", "lessThanInclusive",
     "in", "contains"}

\* the validator of a built-in operator
FactValueValidator(operator, a) ==
    CASE operator \in {"contains", "doesNotContain"} -> a.type = "array"
      [] operator \in {"lessThan", "lessThanInclusive", "greaterThan", "greaterThanInclusive"} ->
            NumberValidator(a)
      [] OTHER -> TRUE

\* whether the callback of a built-in operator throws on fact value a and value b
OperatorThrows(operator, a, b) ==
    CASE operator = "in" -> IndexOfThrows(b)
      [] operator = "contains" -> IndexOfThrows(a)
      [] OTHER -> FALSE

\* the callback of a built-in operator on fact value a and condition value b
OperatorCallback(operator, a, b) ==
    CASE operator = "equal" -> IF StrictEquals(a, b) THEN One ELSE Zero
      [] operator = "notEqual" -> IF ~StrictEquals(a, b) THEN One ELSE Zero
      [] operator = "in" -> IF IndexOfFinds(b, a) THEN One ELSE Zero
      [] operator = "contains" -> IF IndexOfFinds(a, b) THEN One ELSE Zero
      [] operator = "lessThan" -> ExponentialScore(a, b, 1)
      [] operator = "lessThanInclusive" -> ExponentialScore(a, b, 0)
      [] operator = "greaterThan" -> ExponentialScore(b, a, 1)
      [] operator = "greaterThanInclusive" -> ExponentialScore(b, a, 0)

\* the thresholds of the leaves: numbers, digit strings, HH:MM strings, other
\* strings, and arrays
Thresholds ==
    {Num(0), Num(5),
     Str(<<"5">>), Str(<<"1", "2">>), Str(<<"a">>), Str(<<"a", "b">>),
     Str(<<"0", "9", ":", "4", "5">>), Str(<<"0", "0", ":", "1", "0">>),
     Arr(<<>>), Arr(<<Num(1), Num(2)>>), Arr(<<Str(<<"a">>)>>)}

NotEvaluated == [state |-> "none", score |-> Zero]

DefaultsInit ==
    /\ missingLeaf \in [operator : OperatorNames, value : Thresholds]
    /\ defaultValue = Undefined
    /\ evaluated = NotEvaluated

\* _getDefaultValueForCondition without a registered provider
GetDefaultValueForCondition ==
    /\ defaultValue = Undefined
    /\ defaultValue' = GetBuiltInDefaultValue(missingLeaf.operator, missingLeaf.value)
    /\ UNCHANGED <<missingLeaf, evaluated>>
    /\ UNCHANGED <<scoreVars, engineVars, almanacVars, validateVars, rerunVars, extraVars>>

\* the leaf evaluated with its fact set to the default value: Operator.evaluate
EvaluateOnDefault ==
    /\ defaultValue # Undefined
    /\ evaluated = NotEvaluated
    /\ evaluated' =
          LET a == defaultValue
              b == missingLeaf.value
              op == missingLeaf.operator
          IN IF ~FactValueValidator(op, a) THEN [state |-> "scored", score |-> Zero]
             ELSE IF OperatorThrows(op, a, b) THEN [state |-> "threw", score |-> Zero]
             ELSE [state |-> "scored", score |-> OperatorEvaluate(TRUE, OperatorCallback(op, a, b))]
    /\ UNCHANGED <<missingLeaf, defaultValue>>
    /\ UNCHANGED <<scoreVars, engineVars, almanacVars, validateVars, rerunVars, extraVars>>

DefaultsNext == GetDefaultValueForCondition \/ EvaluateOnDefault

\* the numeric comparison operators, the values of their leaves, and the values
\* of the fact: numbers, numbers that differ by Number.EPSILON, strings, an array
ComparisonOperators == {"greaterThan", "greaterThanInclusive", "lessThan", "lessThanInclusive"}
ComparisonValues == {Num(0), Num(5), Num(80), Tiny(0, 1), Tiny(1, 1)}
ComparisonFacts ==
    {Num(0), Num(1), Num(5), Num(80), Num(81), Num(330), Tiny(0, 1), Tiny(1, 1), Tiny(1, -1),
     Str(<<"5">>), Str(<<"a">>), Str(<<"5", "a">>), Arr(<<>>), NotANumber}

\* a comparison leaf and the value its fact resolved to in the almanac
ComparisonsInit ==
    /\ missingLeaf \in [operator : ComparisonOperators, value : ComparisonValues]
    /\ defaultValue \in ComparisonFacts
    /\ evaluated = NotEvaluated

NoDefaults ==
    /\ missingLeaf = [operator |-> "equal", value |-> Num(0)]
    /\ defaultValue = Undefined
    /\ evaluated = NotEvaluated

\* ------------------------------------------- the runs of one engine on facts
MaxRuns == 2

\* a leaf comparing a fact with a value by `equal`; every fact has the value "x"
Leaf(f, v) == [kind |-> "leaf", fact |-> f, value |-> v]

\* the condition set on the engine under the name "named": new Condition gives a
\* boolean condition the weight 1 when none is declared
NamedCondition == [kind |-> "all", conditions |-> <<Leaf("b", "x")>>, weight |-> 1]

\* a condition reference that declares a weight
WeightedReference(name, weight) == [weight |-> weight] @@ ConditionReference(name)

\* condition.weight, if the condition has one
WeightOf(condition) == IF "weight" \in DOMAIN condition THEN condition.weight ELSE NoWeight

\* the conditions of the rules run: a leaf on a fact that may be missing, a
\* conjunction that fails, a disjunction with a condition reference, a negation, a
\* conjunction of a condition reference of weight 2 and a leaf, a disjunction
\* whose first sub-condition passes
RunTrees ==
    { [kind |-> "all", conditions |-> <<Leaf("a", "x")>>],
      [kind |-> "all", conditions |-> <<Leaf("b", "x"), Leaf("b", "y")>>],
      [kind |-> "any", conditions |-> <<Leaf("b", "y"), ConditionReference("named")>>],
      [kind |-> "not", conditions |-> <<Leaf("b", "y")>>],
      [kind |-> "all", conditions |-> <<WeightedReference("named", 2), Leaf("a", "x")>>],
      [kind |-> "any", conditions |-> <<Leaf("b", "x"), Leaf("a", "x")>>] }

\* the event of every rule, with a parameter that refers to a fact
RuleEvent == [type |-> "event", params |-> [fact |-> "b"]]

\* Almanac.factValue of a constant fact, or of a fact that is not in the almanac
LookupFactValueAllowing(facts, factId, allowUndefinedFacts) ==
    IF factId \in facts THEN [rejected |-> FALSE, value |-> "x"]
    ELSE [rejected |-> FALSE, value |-> "undefined"]
LookupFactValue(facts, factId, allowUndefinedFacts) ==
    IF factId \in facts THEN [rejected |-> FALSE, value |-> "x"]
    ELSE IF allowUndefinedFacts THEN [rejected |-> FALSE, value |-> "undefined"]
    ELSE [rejected |-> TRUE, value |-> "UndefinedFactError"]

\* condition.result = score >= 1; condition.score = score
Annotate(condition, score) == [score |-> score, result |-> Geq(score, One)] @@ condition
Annotated(condition) == "score" \in DOMAIN condition

\* evaluateCondition over a condition of the RuleResult's tree, and
\* evaluateConditions with all / any / not over its sub-conditions. A condition
\* reference that cannot be realized throws at once, before any fact has
\* resolved; an undefined fact rejects the evaluation. A reference that is
\* realized becomes the named condition (Object.assign of its clone), and the
\* aggregate reads the weights of the conditions as the evaluation left them.
RECURSIVE EvaluateTree(_, _)
RECURSIVE EvaluateConditions(_, _)
EvaluateConditionsShortCircuiting(condition, env) ==
    LET subs == [i \in 1..Len(condition.conditions) |-> EvaluateTree(condition.conditions[i], env)]
        decides(i) == IF condition.kind = "any" THEN Geq(subs[i].score, One)
                      ELSE condition.kind = "all" /\ ~Geq(subs[i].score, One)
        reached(i) == \A j \in 1..(i - 1) : subs[j].error = "none" /\ ~decides(j)
        errs == {subs[i].error : i \in {j \in 1..Len(subs) : reached(j)}} \ {"none"}
        decided == \E i \in 1..Len(subs) : reached(i) /\ decides(i)
    IN [error |-> IF errs = {} THEN "none" ELSE CHOOSE e \in errs : TRUE,
        score |-> IF condition.kind = "any" THEN (IF decided THEN One ELSE Zero)
                  ELSE IF condition.kind = "all" THEN (IF decided THEN Zero ELSE One)
                  ELSE EvaluateNot(subs[1].score),
        condition |-> [condition EXCEPT !.conditions =
                          [i \in 1..Len(subs) |-> IF reached(i) THEN subs[i].condition
                                                  ELSE condition.conditions[i]]]]
EvaluateConditions(condition, env) ==
    LET subs == [i \in 1..Len(condition.conditions) |-> EvaluateTree(condition.conditions[i], env)]
        errs == {subs[i].error : i \in 1..Len(subs)}
        scored == [i \in 1..Len(subs) |->
                      Child(subs[i].condition.score, WeightOf(subs[i].condition),
                            NoPriority, NoPriority, 0)]
    IN IF "NoCondition" \in errs
       THEN [error |-> "NoCondition", score |-> Zero, condition |-> condition]
       ELSE IF "UndefinedFact" \in errs
       THEN [error |-> "UndefinedFact", score |-> Zero, condition |-> condition]
       ELSE [error |-> "none",
             score |-> IF condition.kind = "all" THEN EvaluateAll(PrioritizeConditions(scored))
                       ELSE IF condition.kind = "any" THEN EvaluateAny(PrioritizeConditions(scored))
                       ELSE EvaluateNot(scored[1].score),
             condition |-> [condition EXCEPT !.conditions = [i \in 1..Len(subs) |-> subs[i].condition]]]
EvaluateTree(condition, env) ==
    CASE condition.kind = "leaf" ->
            LET v == LookupFactValue(env.facts, condition.fact, env.allowUndefinedFacts)
                score == OperatorEvaluate(TRUE, IF v.value = condition.value THEN One ELSE Zero)
            IN IF v.rejected THEN [error |-> "UndefinedFact", score |-> Zero, condition |-> condition]
               ELSE [error |-> "none", score |-> score,
                     condition |-> [factResult |-> v.value] @@ Annotate(condition, score)]
      [] condition.kind = "reference" ->
            LET how == Realize(condition.name, DOMAIN env.conditions, env.allowUndefinedConditions)
            IN IF how = "throw" THEN [error |-> "NoCondition", score |-> Zero, condition |-> condition]
               ELSE IF how = "zero"
               THEN [error |-> "none", score |-> Zero, condition |-> Annotate(condition, Zero)]
               ELSE EvaluateTree(env.conditions[condition.name], env)
      [] OTHER ->
            LET e == EvaluateConditions(condition, env)
            IN [e EXCEPT !.condition = IF e.error = "none" THEN Annotate(e.condition, e.score)
                                       ELSE e.condition]

\* new RuleResult(conditions, event, ...): the result holds deep copies of the
\* rule's conditions and event
NewRuleResultSharing(rule) ==
    [conditions |-> [shared |-> TRUE, value |-> rule.conditions],
     event |-> [shared |-> TRUE, value |-> rule.event]]
NewRuleResult(rule) ==
    [conditions |-> [shared |-> FALSE, value |-> rule.conditions],
     event |-> [shared |-> FALSE, value |-> rule.event]]

\* RuleResult.resolveEventParams: almanac.getValue of a parameter that refers to a fact
ResolveEventParams(event, env) ==
    LET v == LookupFactValue(env.facts, event.params.fact, env.allowUndefinedFacts)
    IN IF v.rejected THEN [error |-> "UndefinedFact", event |-> event]
       ELSE [error |-> "none", event |-> [event EXCEPT !.params = [value |-> v.value]]]

\* Rule.evaluate: the error it throws or rejects with, else the rule result; and
\* the rule as the evaluation leaves it
RuleEvaluate(r, rule, env) ==
    LET ruleResult == NewRuleResult(rule)
        e == EvaluateConditions(ruleResult.conditions.value, env)
        resolved == IF env.replaceFactsInEventParams /\ e.error = "none"
                    THEN ResolveEventParams(ruleResult.event.value, env)
                    ELSE [error |-> "none", event |-> ruleResult.event.value]
    IN [error |-> IF e.error # "none" THEN e.error ELSE resolved.error,
        result |-> [rule |-> r, conditions |-> e.condition, event |-> resolved.event,
                    result |-> Geq(e.score, One), score |-> e.score],
        rule |-> [conditions |-> IF ruleResult.conditions.shared THEN e.condition ELSE rule.conditions,
                  event |-> IF ruleResult.event.shared THEN resolved.event ELSE rule.event]]

\* what a rule evaluates against: the almanac of the run and the engine it is bound to
Env ==
    [facts |-> almanac.facts, conditions |-> engine.conditions,
     allowUndefinedFacts |-> engine.allowUndefinedFacts,
     allowUndefinedConditions |-> engine.allowUndefinedConditions,
     replaceFactsInEventParams |-> engine.replaceFactsInEventParams]

NoAlmanac == [facts |-> {}, results |-> <<>>, events |-> [success |-> <<>>, failure |-> <<>>]]
NoRun == [state |-> "none", evaluating |-> {}, position |-> 0, future |-> "none", error |-> NoError]

\* the orders in which the evaluations of the rules of one bucket settle
Orders == {[i \in Rules |-> i], [i \in Rules |-> NumRules + 1 - i]}

\* new Engine(rules, options), setCondition, addFact: the rules have one priority
RerunInit ==
    /\ engine \in [rules : [Rules -> [conditions : RunTrees, event : {RuleEvent}]],
                   conditions : {[n \in names |-> NamedCondition] : names \in SUBSET {"named"}},
                   facts : SUBSET {"a"},
                   allowUndefinedFacts : BOOLEAN,
                   allowUndefinedConditions : BOOLEAN,
                   replaceFactsInEventParams : BOOLEAN,
                   status : {READY}]
    /\ runtimeFacts \in {{"b"}, {"a", "b"}}
    /\ order \in Orders
    /\ almanac = NoAlmanac
    /\ run = NoRun
    /\ runReturns = <<>>

\* Engine.run and the synchronous map of evaluateRules: the almanac is made of the
\* registered and the runtime facts, and rule.evaluate is called on the rules in
\* turn; the first one that throws ends the map and rejects the run
RunOnFacts ==
    /\ run.state = "none"
    /\ Len(runReturns) < MaxRuns
    /\ almanac' = [NoAlmanac EXCEPT !.facts = engine.facts \cup runtimeFacts]
    /\ engine' = [engine EXCEPT !.status = RUNNING]
    /\ LET throws(r) == RuleEvaluate(r, engine.rules[r], Env').error = "NoCondition"
           throwing == {r \in Rules : throws(r)}
           first == CHOOSE r \in throwing : \A q \in throwing : r <= q
       IN run' = IF throwing = {}
                 THEN [state |-> "running", evaluating |-> Rules, position |-> 1,
                       future |-> "pending", error |-> NoError]
                 ELSE [state |-> "running", evaluating |-> {r \in Rules : r < first}, position |-> 1,
                       future |-> "rejected", error |-> [rule |-> first, from |-> "NoCondition"]]
    /\ UNCHANGED <<runtimeFacts, order, runReturns>>
    /\ UNCHANGED <<scoreVars, engineVars, almanacVars, validateVars, defaultVars, extraVars>>

\* rule.evaluate settles for the next rule in order: its result and event go to the
\* almanac, or its rejection rejects the run
RuleEvaluates ==
    /\ run.state = "running"
    /\ run.position <= NumRules
    /\ LET r == order[run.position]
           e == RuleEvaluate(r, engine.rules[r], Env)
       IN IF r \notin run.evaluating
          THEN /\ run' = [run EXCEPT !.position = @ + 1]
               /\ UNCHANGED <<engine, almanac>>
          ELSE /\ engine' = [engine EXCEPT !.rules[r] = e.rule]
               /\ IF e.error # "none"
                  THEN /\ run' = [run EXCEPT !.position = @ + 1,
                                             !.future = "rejected",
                                             !.error = IF run.future = "pending"
                                                       THEN [rule |-> r, from |-> e.error] ELSE @]
                       /\ UNCHANGED almanac
                  ELSE /\ run' = [run EXCEPT !.position = @ + 1]
                       /\ almanac' =
                             [almanac EXCEPT
                                 !.results = Append(@, e.result),
                                 !.events = IF e.result.result
                                            THEN [@ EXCEPT !.success = Append(@, e.result.event)]
                                            ELSE [@ EXCEPT !.failure = Append(@, e.result.event)]]
    /\ UNCHANGED <<runtimeFacts, order, runReturns>>
    /\ UNCHANGED <<scoreVars, engineVars, almanacVars, validateVars, defaultVars, extraVars>>

\* the run is over: the status is FINISHED, and the future has resolved with the
\* bundle of the almanac's results unless it was rejected
RunReturns ==
    /\ run.state = "running"
    /\ run.position = NumRules + 1
    /\ engine' = [engine EXCEPT !.status = FINISHED]
    /\ runReturns' = Append(runReturns,
                      IF run.future = "pending"
                      THEN [state |-> "resolved", error |-> NoError,
                            results |-> SelectResults(almanac.results, TRUE),
                            failureResults |-> SelectResults(almanac.results, FALSE),
                            events |-> almanac.events.success,
                            failureEvents |-> almanac.events.failure]
                      ELSE [state |-> "rejected", error |-> run.error,
                            results |-> <<>>, failureResults |-> <<>>,
                            events |-> <<>>, failureEvents |-> <<>>])
    /\ run' = NoRun
    /\ UNCHANGED <<runtimeFacts, order, almanac>>
    /\ UNCHANGED <<scoreVars, engineVars, almanacVars, validateVars, defaultVars, extraVars>>

RerunNext == RunOnFacts \/ RuleEvaluates \/ RunReturns

NoRuns ==
    /\ engine = [rules |-> [r \in Rules |-> [conditions |-> [kind |-> "all", conditions |-> <<>>],
                                              event |-> RuleEvent]],
                 conditions |-> [n \in {} |-> NamedCondition], facts |-> {},
                 allowUndefinedFacts |-> FALSE, allowUndefinedConditions |-> FALSE,
                 replaceFactsInEventParams |-> FALSE, status |-> READY]
    /\ runtimeFacts = {}
    /\ order = [i \in Rules |-> i]
    /\ almanac = NoAlmanac
    /\ run = NoRun
    /\ runReturns = <<>>

\* ------------------------------------- runtime facts over engine facts
\* One fact id, registered on the engine and given to run() as a runtime fact.
\* A fact is constant or dynamic and has its `cache` option on or off.
FactKinds == [type : {"constant", "dynamic"}, cache : BOOLEAN]

\* the params of a lookup: none (the default {}), or one of the params objects
NoParams == 0
LookupParams == {NoParams} \cup Params

\* Fact.getCacheKey(params): a hash of {id, params} when the fact's cache option
\* is on, undefined otherwise; the id is the same for both facts
FactCacheKey(fact, params) == IF fact.cache THEN <<params>> ELSE NoKey

NotCached == "none"
NoOverlay ==
    [engineFact |-> [type |-> "constant", cache |-> TRUE],
     runtimeFact |-> [type |-> "constant", cache |-> TRUE],
     factMap |-> "none",
     factResultsCache |-> [p \in LookupParams |-> NotCached],
     returned |-> {}]

OverlayInit == overlay \in {[NoOverlay EXCEPT !.engineFact = e, !.runtimeFact = r] : e, r \in FactKinds}

\* Almanac._setFactValue(fact, params, value): the value of the fact `from`
\* is stored under the cache key, if there is one
SetFactValue(cache, fact, params, from) ==
    IF FactCacheKey(fact, params) # NoKey THEN [cache EXCEPT ![params] = from] ELSE cache

\* Almanac.addFact(fact): the fact takes the id's place in factMap, and a constant
\* fact's value is stored in the cache under the key of no params
AlmanacAddFact(a, fact, from) ==
    [a EXCEPT !.factMap = from,
              !.factResultsCache = IF fact.type = "constant"
                                   THEN SetFactValue(@, fact, NoParams, from) ELSE @]

\* Engine.run: a new almanac, the engine's facts added to it, then the runtime facts
RunLayersFacts ==
    /\ overlay.factMap = "none"
    /\ overlay' = AlmanacAddFact(AlmanacAddFact(overlay, overlay.engineFact, "engine"),
                                 overlay.runtimeFact, "runtime")
    /\ UNCHANGED <<firstVars, ruleList, overlapping, realization>>

\* Almanac.factValue(factId, params): whose value the lookup returns, the engine
\* fact's or the runtime fact's
FactValueOf(a, params) ==
    LET fact == IF a.factMap = "engine" THEN a.engineFact ELSE a.runtimeFact
        cacheKey == FactCacheKey(fact, params)
        cacheVal == IF cacheKey # NoKey THEN a.factResultsCache[params] ELSE NotCached
    IN IF fact.type = "constant"
       THEN [value |-> a.factMap, factResultsCache |-> a.factResultsCache]
       ELSE IF cacheVal # NotCached
       THEN [value |-> cacheVal, factResultsCache |-> a.factResultsCache]
       ELSE [value |-> a.factMap,
             factResultsCache |-> SetFactValue(a.factResultsCache, fact, params, a.factMap)]

LayeredFactValue(params) ==
    /\ overlay.factMap # "none"
    /\ LET v == FactValueOf(overlay, params)
       IN overlay' = [overlay EXCEPT !.factResultsCache = v.factResultsCache,
                                     !.returned = @ \cup {<<params, v.value>>}]
    /\ UNCHANGED <<firstVars, ruleList, overlapping, realization>>

OverlayNext == RunLayersFacts \/ \E params \in LookupParams : LayeredFactValue(params)

\* --------------------------------------------- the engine's list of rules
\* engine.prioritizedRules = null
Null == "null"

NoRuleList ==
    [rules |-> <<>>, priority |-> [r \in Rules |-> 1], prioritizedRules |-> Null,
     orderedSets |-> <<>>, runs |-> 0]

\* the rules of the list with priority p, in the order of the list
RECURSIVE RuleSet(_, _, _)
RuleSet(list, priority, p) ==
    IF list = <<>> THEN <<>>
    ELSE IF priority[Head(list)] = p
         THEN <<Head(list)>> \o RuleSet(Tail(list), priority, p)
         ELSE RuleSet(Tail(list), priority, p)

\* the reduce and sort of prioritizeRules: the rule sets, highest priority first
RECURSIVE RuleSetsFrom(_, _, _)
RuleSetsFrom(list, priority, p) ==
    IF p = 0 THEN <<>>
    ELSE IF RuleSet(list, priority, p) = <<>> THEN RuleSetsFrom(list, priority, p - 1)
    ELSE <<RuleSet(list, priority, p)>> \o RuleSetsFrom(list, priority, p - 1)

\* Engine.prioritizeRules: the cached sets when there are any
PrioritizeRulesAfresh(e) == RuleSetsFrom(e.rules, e.priority, MaxPriority + 1)
PrioritizeRulesCached(e) ==
    IF e.prioritizedRules = Null THEN RuleSetsFrom(e.rules, e.priority, MaxPriority + 1)
    ELSE e.prioritizedRules

Without(list, r) == SelectSeq(list, LAMBDA x : x # r)

\* Engine.addRule(rule) of a rule that is not in the list, made with priority p
AddRule(r, p) ==
    /\ r \notin Range(ruleList.rules)
    /\ ruleList' = [ruleList EXCEPT !.rules = Append(@, r), !.priority[r] = p,
                                    !.prioritizedRules = Null]
    /\ UNCHANGED <<firstVars, overlay, overlapping, realization>>

\* Engine.updateRule(rule) with a rule of the name of r, of priority p: the rule
\* of that name is spliced out and the new one is added at the end
UpdateRule(r, p) ==
    /\ r \in Range(ruleList.rules)
    /\ ruleList' = [ruleList EXCEPT !.rules = Append(Without(@, r), r), !.priority[r] = p,
                                    !.prioritizedRules = Null]
    /\ UNCHANGED <<firstVars, overlay, overlapping, realization>>

\* Engine.removeRule(rule) of a rule of the list
RemoveRule(r) ==
    /\ r \in Range(ruleList.rules)
    /\ ruleList' = [ruleList EXCEPT !.rules = Without(@, r), !.priority[r] = 1,
                                    !.prioritizedRules = Null]
    /\ UNCHANGED <<firstVars, overlay, overlapping, realization>>

\* Rule.setPriority(p) on a rule of the list
SetPriority(r, p) ==
    /\ r \in Range(ruleList.rules)
    /\ ruleList.priority[r] # p
    /\ ruleList' = [ruleList EXCEPT !.priority[r] = p]
    /\ UNCHANGED <<firstVars, overlay, overlapping, realization>>

\* Engine.run: const orderedSets = this.prioritizeRules()
RunPrioritizes ==
    /\ ruleList.runs < MaxRuns
    /\ ruleList' = [ruleList EXCEPT !.prioritizedRules = PrioritizeRulesCached(ruleList),
                                    !.orderedSets = PrioritizeRulesCached(ruleList),
                                    !.runs = @ + 1]
    /\ UNCHANGED <<firstVars, overlay, overlapping, realization>>

RuleListNext ==
    \/ \E r \in Rules, p \in 1..MaxPriority : AddRule(r, p)
    \/ \E r \in Rules, p \in 1..MaxPriority : UpdateRule(r, p)
    \/ \E r \in Rules : RemoveRule(r)
    \/ \E r \in Rules, p \in 1..MaxPriority : SetPriority(r, p)
    \/ RunPrioritizes

\* ------------------------------------------------- overlapping runs
\* two calls of run() on one engine, each with an almanac of its own
Calls == {1, 2}

NotCalled == [phase |-> "none", orderedSets |-> <<>>, cursor |-> 0, evaluating |-> <<>>,
           ruleResults |-> <<>>, bundle |-> NoBundle, overlapped |-> FALSE]
NoOverlapping == [status |-> READY, priority |-> [r \in Rules |-> 1],
                  calls |-> [k \in Calls |-> NotCalled]]

\* the engine with its rules added, each with a priority >= 1; run() not yet called
OverlappingInit ==
    \E prio \in [Rules -> 1..MaxPriority] :
        overlapping = [NoOverlapping EXCEPT !.priority = prio]

UnderWay(c) == c.phase \in {"then", "all"}

\* Engine.run up to the promise it returns: the status is RUNNING and the chain
\* over the buckets is built on a fresh almanac
OverlappingRun(k) ==
    /\ overlapping.calls[k].phase = "none"
    /\ LET others == \E j \in Calls \ {k} : UnderWay(overlapping.calls[j])
       IN overlapping' =
              [overlapping EXCEPT
                 !.status = RUNNING,
                 !.calls = [j \in Calls |->
                     IF j = k
                     THEN [NotCalled EXCEPT !.phase = "then",
                                         !.orderedSets = PrioritizeRules(overlapping.priority),
                                         !.cursor = 1,
                                         !.overlapped = others]
                     ELSE IF UnderWay(@[j]) THEN [@[j] EXCEPT !.overlapped = TRUE]
                     ELSE @[j]]]
    /\ UNCHANGED <<firstVars, overlay, ruleList, realization>>

\* Engine.evaluateRules of call k: the synchronous map over the bucket starts
\* rule.evaluate on each rule when engine.status is RUNNING, and skips the rule
\* otherwise
OverlappingEvaluateRules(k) ==
    LET c == overlapping.calls[k]
    IN /\ c.phase = "then"
       /\ c.cursor <= Len(c.orderedSets)
       /\ overlapping' =
              [overlapping EXCEPT
                 !.calls[k].phase = "all",
                 !.calls[k].evaluating = IF overlapping.status # RUNNING THEN <<>>
                                         ELSE c.orderedSets[c.cursor]]
       /\ UNCHANGED <<firstVars, overlay, ruleList, realization>>

\* the rules of the bucket that passed, in the order of the bucket
RECURSIVE ResultsOf(_, _)
ResultsOf(set, passing) ==
    IF set = <<>> THEN <<>>
    ELSE <<[rule |-> Head(set), result |-> Head(set) \in passing]>>
             \o ResultsOf(Tail(set), passing)

\* Promise.all of the bucket of call k resolves: the results of the rules evaluated
\* are in the almanac of the call and its chain moves to the next bucket
OverlappingBucketResolved(k, passing) ==
    LET c == overlapping.calls[k]
    IN /\ c.phase = "all"
       /\ passing \subseteq Range(c.evaluating)
       /\ overlapping' =
              [overlapping EXCEPT
                 !.calls[k].phase = "then",
                 !.calls[k].cursor = c.cursor + 1,
                 !.calls[k].evaluating = <<>>,
                 !.calls[k].ruleResults = c.ruleResults \o ResultsOf(c.evaluating, passing)]
       /\ UNCHANGED <<firstVars, overlay, ruleList, realization>>

\* the last then-callback of call k: the status is FINISHED and the call resolves
\* with the results of its almanac
OverlappingRunCompleted(k) ==
    LET c == overlapping.calls[k]
    IN /\ c.phase = "then"
       /\ c.cursor = Len(c.orderedSets) + 1
       /\ overlapping' =
              [overlapping EXCEPT
                 !.status = FINISHED,
                 !.calls[k].phase = "done",
                 !.calls[k].bundle = GroupResults(c.ruleResults)]
       /\ UNCHANGED <<firstVars, overlay, ruleList, realization>>

OverlappingNext ==
    \/ \E k \in Calls : OverlappingRun(k)
    \/ \E k \in Calls : OverlappingEvaluateRules(k)
    \/ \E k \in Calls, passing \in SUBSET Rules : OverlappingBucketResolved(k, passing)
    \/ \E k \in Calls : OverlappingRunCompleted(k)

\* ------------------------------------------- realizing named conditions
\* the names given to setCondition; a condition is its root (all, any, not, or
\* a reference) and the named condition that root or one of its sub-conditions
\* refers to, if any: its other sub-conditions are leaves over defined facts
ConditionNames == {"a", "b"}
NoName == "none"
Unset == [kind |-> "unset", condition |-> NoName]
ConditionRoots ==
    [kind : {"all", "any", "not"}, condition : ConditionNames \cup {"c", NoName}]
        \cup [kind : {"condition"}, condition : ConditionNames \cup {"c"}]

\* new Engine(options): no named condition; no rule evaluated yet
NoRealization ==
    [conditions |-> [n \in ConditionNames |-> Unset], allowUndefinedConditions |-> FALSE,
     stack |-> <<>>, current |-> Unset, future |-> "none", error |-> "none"]

RealizationInit ==
    \E allow \in BOOLEAN :
        realization = [NoRealization EXCEPT !.allowUndefinedConditions = allow]

\* Engine.setCondition(name, conditions), before the run
SetCondition(name, conditions) ==
    /\ realization.future = "none"
    /\ realization' = [realization EXCEPT !.conditions[name] = conditions]
    /\ UNCHANGED <<firstVars, overlay, ruleList, overlapping>>

\* the evaluation goes on with `condition`: over leaves only it resolves, over a
\* reference it waits for realize
Entered(condition) == IF condition.condition = NoName THEN "resolved" ELSE "pending"

\* Rule.evaluate on a rule whose conditions are `conditions`: all, any, not or
\* realize on the root
EvaluateRule(conditions) ==
    /\ realization.future = "none"
    /\ realization' = [realization EXCEPT !.current = conditions,
                                          !.future = Entered(conditions)]
    /\ UNCHANGED <<firstVars, overlay, ruleList, overlapping>>

NamesSet(conditions) == {n \in ConditionNames : conditions[n] # Unset}

\* realize(conditionReference), called synchronously from evaluateCondition: an
\* unknown name scores 0 or throws, by allowUndefinedConditions; a known one is
\* cloned onto the reference, which evaluateCondition is then called on, one
\* frame deeper in the call stack
RealizeReference ==
    LET name == realization.current.condition
        does == Realize(name, NamesSet(realization.conditions),
                        realization.allowUndefinedConditions)
    IN /\ realization.future = "pending"
       /\ does = "evaluate" => Len(realization.stack) < MaxStack
       /\ realization' =
              IF does = "zero" THEN [realization EXCEPT !.future = "resolved"]
              ELSE IF does = "throw"
                   THEN [realization EXCEPT !.future = "rejected", !.error = "No condition"]
                   ELSE [realization EXCEPT
                            !.stack = Append(@, name),
                            !.current = realization.conditions[name],
                            !.future = Entered(realization.conditions[name])]
       /\ UNCHANGED <<firstVars, overlay, ruleList, overlapping>>

\* the call stack is exhausted by the nested calls of realize: the host throws a
\* RangeError, which rejects the evaluation
CallStackExceeded ==
    /\ realization.future = "pending"
    /\ realization.current.condition \in NamesSet(realization.conditions)
    /\ Len(realization.stack) = MaxStack
    /\ realization' = [realization EXCEPT !.future = "rejected", !.error = "RangeError"]
    /\ UNCHANGED <<firstVars, overlay, ruleList, overlapping>>

RealizationNext ==
    \/ \E name \in ConditionNames, conditions \in ConditionRoots : SetCondition(name, conditions)
    \/ \E conditions \in ConditionRoots : EvaluateRule(conditions)
    \/ RealizeReference
    \/ CallStackExceeded

NoLaterModels == overlapping = NoOverlapping /\ realization = NoRealization
NoExtras == overlay = NoOverlay /\ ruleList = NoRuleList /\ NoLaterModels

\* ------------------------------------------------------ specifications
ScoreVarsInit == kids = <<>> /\ leaf = NoLeaf /\ node = NoNode
OneBucket == rulePriority = [r \in Rules |-> 1]
NoConditions == rules = [r \in Rules |-> [kind |-> "all", conditions |-> <<>>]]

ScoreInit ==
    ScoreVarsInit /\ EngineInit /\ OneBucket /\ AlmanacInit /\ ValidateInit /\ NoConditions /\ NoDefaults /\ NoRuns /\ NoExtras
ScoreNext == EvaluateCondition \/ all \/ any \/ not
SpecScore == ScoreInit /\ [][ScoreNext]_vars

Init == ScoreVarsInit /\ EngineInit /\ AlmanacInit /\ ValidateInit /\ NoConditions /\ NoDefaults /\ NoRuns /\ NoExtras
Next == EngineNext
Spec == Init /\ [][Next]_vars

InitAlmanac ==
    ScoreVarsInit /\ EngineInit /\ OneBucket /\ AlmanacInit /\ ValidateInit /\ NoConditions /\ NoDefaults /\ NoRuns /\ NoExtras
SpecAlmanac == InitAlmanac /\ [][AlmanacNext]_vars

InitValidate == ScoreVarsInit /\ EngineInit /\ OneBucket /\ AlmanacInit /\ ValidateInit /\ NoDefaults /\ NoRuns /\ NoExtras
SpecValidate == InitValidate /\ [][ValidateNext]_vars

InitDefaults ==
    ScoreVarsInit /\ EngineInit /\ OneBucket /\ AlmanacInit /\ ValidateInit /\ NoConditions /\ DefaultsInit
        /\ NoRuns /\ NoExtras
SpecDefaults == InitDefaults /\ [][DefaultsNext]_vars

InitComparisons ==
    ScoreVarsInit /\ EngineInit /\ OneBucket /\ AlmanacInit /\ ValidateInit /\ NoConditions
        /\ ComparisonsInit /\ NoRuns /\ NoExtras
ComparisonsNext == EvaluateOnDefault
SpecComparisons == InitComparisons /\ [][ComparisonsNext]_vars

InitRerun ==
    ScoreVarsInit /\ EngineInit /\ OneBucket /\ AlmanacInit /\ ValidateInit /\ NoConditions /\ NoDefaults
        /\ RerunInit /\ NoExtras
SpecRerun == InitRerun /\ [][RerunNext]_vars

InitOverlay ==
    ScoreVarsInit /\ EngineInit /\ OneBucket /\ AlmanacInit /\ ValidateInit /\ NoConditions /\ NoDefaults
        /\ NoRuns /\ OverlayInit /\ ruleList = NoRuleList /\ NoLaterModels
SpecOverlay == InitOverlay /\ [][OverlayNext]_vars

\* new Engine(): no rule
InitRuleList ==
    ScoreVarsInit /\ EngineInit /\ OneBucket /\ AlmanacInit /\ ValidateInit /\ NoConditions /\ NoDefaults
        /\ NoRuns /\ NoExtras
SpecRuleList == InitRuleList /\ [][RuleListNext]_vars

InitOverlapping ==
    ScoreVarsInit /\ EngineInit /\ OneBucket /\ AlmanacInit /\ ValidateInit /\ NoConditions /\ NoDefaults
        /\ NoRuns /\ overlay = NoOverlay /\ ruleList = NoRuleList /\ OverlappingInit
        /\ realization = NoRealization
SpecOverlapping == InitOverlapping /\ [][OverlappingNext]_vars

InitRealization ==
    ScoreVarsInit /\ EngineInit /\ OneBucket /\ AlmanacInit /\ ValidateInit /\ NoConditions /\ NoDefaults
        /\ NoRuns /\ overlay = NoOverlay /\ ruleList = NoRuleList /\ overlapping = NoOverlapping
        /\ RealizationInit
SpecRealization == InitRealization /\ [][RealizationNext]_vars

\* ------------------------------------------------------------ claims
\* In a step that evaluates a boolean node: its sub-conditions in evaluation
\* order, and the node as it stands among its siblings afterwards.
SubConditions == PrioritizeConditions(LastK(kids, node'.k))
Evaluated == kids'[Len(kids')]

RECURSIVE SumWeightedScores(_, _)
SumWeightedScores(conds, n) ==
    IF n = 0 THEN Zero
    ELSE Plus(SumWeightedScores(conds, n - 1), Times(conds[n].score, WeightOr1(conds[n])))

RECURSIVE SumWeights(_, _)
SumWeights(conds, n) == IF n = 0 THEN 0 ELSE SumWeights(conds, n - 1) + WeightOr1(conds[n])

\* C1: an `all` node scores the weighted mean sum(w_i*s_i) / sum(w_i) of its
\* children (a missing weight counts as 1), an empty `all` scores 1, and the
\* node's result is true exactly when the score is >= 1.
C1_AllIsWeightedMean ==
    [][node'.kind = "all" =>
        LET n == node'.k
        IN /\ n = 0 => Evaluated.score = One
           /\ n >= 1 => Evaluated.score = Over(SumWeightedScores(SubConditions, n),
                                              SumWeights(SubConditions, n))
           /\ Evaluated.result <=> Geq(Evaluated.score, One)]_vars

\* an `all` of a passing child of weight 2 and a failing child without weight: 2/3
C1_Witness ==
    /\ node.kind = "all" /\ node.k = 2
    /\ kids[Len(kids)].score = <<2, 3>>
    /\ ~kids[Len(kids)].result

WeightedScore(c) == Times(c.score, WeightOr1(c))

\* C2: an `any` node with children scores the unweighted score of the first child
\* (in evaluation order) whose weighted score w_i*s_i is maximal among all
\* children; an empty `any` scores 0.
C2_AnyIsFirstWeightedMax ==
    [][node'.kind = "any" =>
        LET cs == SubConditions
        IN /\ Len(cs) = 0 => Evaluated.score = Zero
           /\ Len(cs) >= 1 =>
                 \E i \in 1..Len(cs) :
                     /\ \A j \in 1..Len(cs) : Geq(WeightedScore(cs[i]), WeightedScore(cs[j]))
                     /\ \A j \in 1..(i - 1) : ~Geq(WeightedScore(cs[j]), WeightedScore(cs[i]))
                     /\ Evaluated.score = cs[i].score]_vars

C4_LeafScoreInUnitInterval ==
    leaf.kind = "leaf" =>
        /\ InUnit(leaf.score)
        /\ leaf.result <=> Geq(leaf.score, One)
        /\ ~leaf.valid => leaf.score = Zero

\* ------------------------------------------------------ claims: the run
Begun(r) == rs[r] \notin {"idle", "skipped"}
BundleRules == {bundle.results[i].rule : i \in 1..Len(bundle.results)}
                   \cup {bundle.failureResults[i].rule : i \in 1..Len(bundle.failureResults)}
ClassifiedByResult ==
    /\ \A i \in 1..Len(bundle.results) :
          bundle.results[i].result /\ Geq(bundle.results[i].score, One)
    /\ \A i \in 1..Len(bundle.failureResults) :
          ~bundle.failureResults[i].result /\ ~Geq(bundle.failureResults[i].score, One)

C6_LowerBeginsOnlyAfterHigherSettled ==
    \A r, q \in Rules :
        rulePriority[q] > rulePriority[r] /\ Begun(r) => rs[q] = "done"

Computations(f, p) == {i \in 1..Len(promises) : promises[i].fact = f /\ promises[i].params = p}

ListNames == {"fullySatisfiedRules", "partiallySatisfiedRules", "independentRules",
              "unsatisfiedRules"}
Places(r) == {x \in ListNames \X (1..NumRules) :
                 x[2] <= Len(analysis[x[1]]) /\ analysis[x[1]][x[2]].rule = r}

\* C10: when findSatisfiedRules returns, every rule of the engine is in exactly
\* one place of exactly one of the four lists, whatever the temporary runs did,
\* and the summary counts add up: fullySatisfied + partiallySatisfied +
\* independent + unsatisfied = totalRules, totalSatisfied = totalRules - unsatisfied.
C10_EveryRuleInExactlyOneList ==
    /\ call.state = "running" =>
          \A r \in Rules : Cardinality(Places(r)) = (IF r < call.next THEN 1 ELSE 0)
    /\ call.state = "returned" =>
          /\ \A r \in Rules : Cardinality(Places(r)) = 1
          /\ summary.totalRules = NumRules
          /\ summary.fullySatisfied + summary.partiallySatisfied + summary.independent
                 + summary.unsatisfied = summary.totalRules
          /\ summary.totalSatisfied = summary.totalRules - summary.unsatisfied
          /\ summary.fullySatisfied = Len(analysis.fullySatisfiedRules)
          /\ summary.partiallySatisfied = Len(analysis.partiallySatisfiedRules)
          /\ summary.independent = Len(analysis.independentRules)
          /\ summary.unsatisfied = Len(analysis.unsatisfiedRules)

C10_Witness ==
    /\ call.state = "returned"
    /\ \E i \in 1..Len(analysis.unsatisfiedRules) :
          analysis.unsatisfiedRules[i].reason = "unsatisfied_evaluation_error"
    /\ Len(analysis.partiallySatisfiedRules) = 1
    /\ Len(analysis.independentRules) = 1

\* --------------------------------------------- claims: isolation
\* C11: once findSatisfiedRules has returned, every rule of the engine is still
\* bound to the original engine, and run() on the original engine ends as it does
\* without the classification: with every rule bound to the original engine, whose
\* named conditions are set, it resolves.
C11_ClassificationLeavesRulesBound ==
    /\ call.state = "returned" => \A r \in Rules : ruleEngine[r] = "original"
    /\ laterRun # "none" =>
          laterRun = (IF \E r \in Rules : RuleThrows(r, "original") THEN "rejected" ELSE "resolved")

\* C12: during findSatisfiedRules no handler is invoked: the original engine emits
\* nothing, and no rule emits `success` or `failure` to its own listeners.
C12_NoHandlerDuringClassification ==
    /\ \A r \in Rules : emitted[r] = <<>>
    /\ ruleEmits = {}

\* --------------------------------------------- claims: the classification rules
EntryOf(r) == LET x == CHOOSE x \in Places(r) : TRUE IN analysis[x[1]][x[2]]
ListOf(r) == (CHOOSE x \in Places(r) : TRUE)[1]
Classified(r) == call.state \in {"running", "returned"} /\ r < call.next
UsesProvidedFact(r) == \E f \in call.facts : ConditionUsesFact(rules[r], f)
UsesFocusedFact(r) == call.focusedFactId # NoFact /\ ConditionUsesFact(rules[r], call.focusedFactId)
MissingFacts(r) == GetMissingFactsForRule(rules[r], call.facts)

\* C13 (as amended): a rule that references a provided fact (and the focused fact,
\* when one is given) and has a missing fact, that is a fact not provided that one
\* of its leaves compares with a defined value, is first run on the provided facts
\* alone with undefined facts allowed: when it passes there it is fully_satisfied
\* (reason fully_satisfied_with_fact); otherwise it is partially_satisfied (reason
\* partially_satisfied_missing_facts, score 0, missingFacts exactly those missing
\* facts) when it passes on the provided facts united with the synthesized
\* defaults, and unsatisfied (reason unsatisfied_condition_mismatch, score 0) when
\* it fails there or the evaluation throws.
C13_MissingFactsClassification ==
    \A r \in Rules :
        /\ Classified(r)
        /\ UsesProvidedFact(r)
        /\ call.focusedFactId # NoFact => UsesFocusedFact(r)
        /\ MissingFacts(r) # {}
        => LET runs == temporaryRuns[r]
               e == EntryOf(r)
           IN IF runs[1] = "pass"
              THEN /\ Len(runs) = 1
                   /\ ListOf(r) = "fullySatisfiedRules"
                   /\ e.reason = "fully_satisfied_with_fact"
              ELSE /\ Len(runs) = 2
                   /\ e.score = Zero
                   /\ IF runs[2] = "pass"
                      THEN /\ ListOf(r) = "partiallySatisfiedRules"
                           /\ e.reason = "partially_satisfied_missing_facts"
                           /\ e.missingFacts = MissingFacts(r)
                      ELSE /\ ListOf(r) = "unsatisfiedRules"
                           /\ e.reason = "unsatisfied_condition_mismatch"

C13_Witness ==
    \E r, q, u \in Rules :
        /\ Classified(r) /\ Classified(q) /\ Classified(u)
        /\ temporaryRuns[r] = <<"pass">> /\ MissingFacts(r) # {}
        /\ temporaryRuns[q] = <<"fail", "pass">>
        /\ temporaryRuns[u] = <<"throw", "throw">>

\* C13 as stated: a rule that references a provided fact and has a missing fact is
\* classified partially_satisfied or unsatisfied (unsatisfied_condition_mismatch),
\* and gets no other classification.
C13_PartiallySatisfiedOrUnsatisfiedOnly ==
    \A r \in Rules :
        Classified(r) /\ UsesProvidedFact(r) /\ MissingFacts(r) # {}
        => \/ ListOf(r) = "partiallySatisfiedRules"
           \/ ListOf(r) = "unsatisfiedRules" /\ EntryOf(r).reason = "unsatisfied_condition_mismatch"

\* C14: a rule with at least one leaf is classified independent with score 0 and
\* reason independent_and_satisfied whenever a focused fact is given that it does
\* not reference, or no focused fact is given and it references no provided fact;
\* a rule is independent with score 1 exactly when its tree has no leaf; and no
\* rule that references the focused fact (or, without a focused fact, a provided
\* fact) is classified with reason independent_and_satisfied.
C14_IndependentClassification ==
    \A r \in Rules :
        Classified(r) =>
            LET e == EntryOf(r)
                focused == call.focusedFactId # NoFact
                references == IF focused THEN UsesFocusedFact(r) ELSE UsesProvidedFact(r)
            IN /\ HasConditions(rules[r]) /\ ~references
                    => /\ ListOf(r) = "independentRules"
                       /\ e.score = Zero
                       /\ e.reason = "independent_and_satisfied"
               /\ (ListOf(r) = "independentRules" /\ e.score = One) <=> ~HasConditions(rules[r])
               /\ HasConditions(rules[r]) /\ references => e.reason # "independent_and_satisfied"

\* ------------------------------------------------ claims: synthesized defaults
\* the threshold types the synthesis table has a row for, per operator
TableCovers(operator, t) ==
    CASE operator \in {"in", "contains"} -> TRUE
      [] OTHER -> t.type \in {"number", "string"}

\* C15: for every operator of the built-in default synthesis table and every
\* threshold of a type the table covers, the synthesized default satisfies the leaf
\* it was synthesized for: the leaf evaluated with the fact set to the default
\* scores >= 1.
C15_DefaultSatisfiesItsLeaf ==
    evaluated # NotEvaluated /\ TableCovers(missingLeaf.operator, missingLeaf.value)
        => evaluated.state = "scored" /\ Geq(evaluated.score, One)

\* ------------------------------------------------ claims: `any` with weights
\* C20: an `any` node whose children all carry positive integer weights has result
\* true whenever at least one of its children has result true (score >= 1).
C20_AnyPassesWhenOneChildPasses ==
    [][node'.kind = "any" =>
        LET cs == SubConditions
        IN (/\ \A i \in 1..Len(cs) : cs[i].weight >= 1
            /\ \E i \in 1..Len(cs) : Geq(cs[i].score, One))
           => Evaluated.result]_vars

\* ------------------------------------------------ claims: failing handlers
\* the errors thrown by handlers: the rule's onSuccess / onFailure, or the engine's
\* handlers of `success`, `failure` or the event type
HandlerErrors == {i \in 1..Len(errors) : errors[i].from # "evaluate"}
BucketOf(r) == CHOOSE b \in 1..Len(orderedSets) : r \in Range(orderedSets[b])
BucketSettled(r) == cursor > BucketOf(r)

\* C19 (as amended): once a handler of the engine (success, failure, event type) or
\* of a rule (onSuccess, onFailure) has thrown or returned a rejected future, the
\* run future never resolves with a result bundle, and when the rule's bucket has
\* settled it is rejected, with the first error thrown during the run: with the
\* handler's error when that is the first one.
C19_HandlerFailureRejectsRun ==
    \A i \in HandlerErrors :
        /\ runFuture # "resolved"
        /\ BucketSettled(errors[i].rule) => runFuture = "rejected" /\ runError = errors[1]

C19_Witness ==
    /\ phase = "done"
    /\ runFuture = "rejected"
    /\ Len(errors) = 2
    /\ errors[1].from = "success" /\ errors[2].from = "onFailure"
    /\ runError = errors[1]

\* C19 as stated: the run future rejects with the error of every handler that
\* failed, and never resolves.
C19_RunRejectsWithEveryHandlerError ==
    \A i \in HandlerErrors :
        /\ runFuture # "resolved"
        /\ BucketSettled(errors[i].rule) => runFuture = "rejected" /\ runError = errors[i]

\* ------------------------------------------------ claims: runs of one engine
\* the facts the leaves of a tree look up, and the conditions below its root
RECURSIVE TreeFacts(_)
TreeFacts(condition) ==
    IF condition.kind = "leaf" THEN {condition.fact}
    ELSE IF condition.kind = "reference" THEN {}
    ELSE UNION {TreeFacts(condition.conditions[i]) : i \in 1..Len(condition.conditions)}

RECURSIVE NodesBelow(_)
NodesBelow(condition) ==
    IF condition.kind \in {"leaf", "reference"} THEN {}
    ELSE UNION {{condition.conditions[i]} \cup NodesBelow(condition.conditions[i]) :
                    i \in 1..Len(condition.conditions)}

RunFacts == engine.facts \cup runtimeFacts
MissingFactsOf(r) == TreeFacts(engine.rules[r].conditions) \ RunFacts
UndefinedReferences(r) == ReferencesOf(engine.rules[r].conditions) \ DOMAIN engine.conditions
RuleResultsOf(returns) ==
    {returns.results[i] : i \in 1..Len(returns.results)}
        \cup {returns.failureResults[i] : i \in 1..Len(returns.failureResults)}

\* C16: consecutive run(facts) calls on the same engine with the same facts return
\* the same results and failureResults (same rules, scores and annotated condition
\* trees) and the same events in the same order; a run leaves each rule's own
\* condition tree and event and the engine's named conditions without any score or
\* result annotation, and the engine's registered facts unchanged.
C16_RerunReturnsTheSame ==
    /\ [](/\ \A i, j \in 1..Len(runReturns) : runReturns[i] = runReturns[j]
          /\ \A r \in Rules : /\ engine.rules[r].conditions \in RunTrees
                              /\ engine.rules[r].event = RuleEvent
          /\ \A n \in DOMAIN engine.conditions : engine.conditions[n] = NamedCondition)
    /\ [][engine'.facts = engine.facts]_vars

C16_Witness ==
    /\ Len(runReturns) = 2
    /\ runReturns[2].state = "resolved"
    /\ runReturns[2].results # <<>>
    /\ runReturns[2].failureResults # <<>>
    /\ engine.replaceFactsInEventParams
    /\ engine.facts # {}
    /\ \E x \in RuleResultsOf(runReturns[2]) :
           /\ \A c \in NodesBelow(x.conditions) : Annotated(c)
           /\ \E c \in NodesBelow(x.conditions) : c.kind = "all"
           /\ x.event.params = [value |-> "x"]

\* C17: a factValue lookup of a fact that is not in the almanac resolves to
\* undefined, without rejecting, when allowUndefinedFacts is set; when it is not
\* set the lookup rejects with an undefined-fact error, and a run whose rule needs
\* that fact rejects instead of resolving.
C17_UndefinedFactLookup ==
    \A k \in 1..Len(runReturns) :
        IF engine.allowUndefinedFacts
        THEN /\ runReturns[k].error.from # "UndefinedFact"
             /\ \A x \in RuleResultsOf(runReturns[k]) :
                    \A c \in NodesBelow(x.conditions) :
                        c.kind = "leaf" /\ c.fact \notin RunFacts
                            => c.factResult = "undefined" /\ c.score = Zero
        ELSE (\E r \in Rules : MissingFactsOf(r) # {})
                 => /\ runReturns[k].state = "rejected"
                    /\ (\A r \in Rules : UndefinedReferences(r) = {} \/ engine.allowUndefinedConditions)
                           => /\ runReturns[k].error.from = "UndefinedFact"
                              /\ MissingFactsOf(runReturns[k].error.rule) # {}

C17_Witness ==
    /\ Len(runReturns) >= 1
    /\ ~engine.allowUndefinedFacts
    /\ runReturns[1].state = "rejected"
    /\ runReturns[1].error.from = "UndefinedFact"
    /\ "a" \in MissingFactsOf(runReturns[1].error.rule)

\* C18: a condition reference whose name is not set on the engine makes the run
\* reject when allowUndefinedConditions is false; when it is true the reference
\* gets score 0 and result false, the remaining conditions are evaluated, and the
\* run resolves (no fact that the rules need being undefined).
C18_UndefinedConditionReference ==
    \A k \in 1..Len(runReturns) :
        (\E r \in Rules : UndefinedReferences(r) # {}) =>
            IF ~engine.allowUndefinedConditions
            THEN /\ runReturns[k].state = "rejected"
                 /\ runReturns[k].error.from = "NoCondition"
                 /\ UndefinedReferences(runReturns[k].error.rule) # {}
            ELSE /\ (engine.allowUndefinedFacts \/ \A r \in Rules : MissingFactsOf(r) = {})
                        => /\ runReturns[k].state = "resolved"
                           /\ Len(runReturns[k].results) + Len(runReturns[k].failureResults) = NumRules
                 /\ \A x \in RuleResultsOf(runReturns[k]) :
                        \A c \in NodesBelow(x.conditions) :
                            /\ Annotated(c)
                            /\ c.kind = "reference" => c.score = Zero /\ ~c.result

C18_Witness ==
    /\ Len(runReturns) >= 1
    /\ engine.allowUndefinedConditions
    /\ runReturns[1].state = "resolved"
    /\ \E x \in RuleResultsOf(runReturns[1]) :
           /\ x.conditions.kind = "all"
           /\ x.conditions.conditions[1].kind = "reference"
           /\ x.conditions.conditions[1].score = Zero
           /\ x.conditions.conditions[2].score = One
           /\ x.score = <<1, 3>>

\* ------------------------------------------------ claims: the evaluation order
\* the siblings with other priorities of their own: ps[i] is the priority of the i-th
Reprioritized(conds, ps) ==
    [i \in 1..Len(conds) |-> [conds[i] EXCEPT !.priority = ps[i], !.factPriority = NoPriority]]

ScoreOf(operator, conds) ==
    IF operator = "all" THEN EvaluateAll(PrioritizeConditions(conds))
    ELSE EvaluateAny(PrioritizeConditions(conds))

\* C21: the order in which the children of an `all` or `any` node are evaluated
\* does not change the node's score: with the children's scores and weights
\* fixed, every assignment of priorities to the children gives the score the
\* node was evaluated to.
C21_OrderDoesNotChangeScore ==
    [][node'.kind \in {"all", "any"} =>
        LET conds == LastK(kids, node'.k)
        IN \A ps \in [1..Len(conds) -> 1..MaxPriority] :
               ScoreOf(node'.kind, Reprioritized(conds, ps)) = Evaluated.score]_vars

\* ------------------------------------------------ claims: no short circuit
\* the rule results the almanac of the run under way holds, and those the runs returned
RuleResultsSoFar ==
    {almanac.results[i] : i \in 1..Len(almanac.results)}
        \cup UNION {RuleResultsOf(runReturns[k]) : k \in 1..Len(runReturns)}

RECURSIVE CountLeaves(_, _)
CountLeaves(condition, named) ==
    IF condition.kind = "leaf" THEN 1
    ELSE IF condition.kind = "reference"
         THEN (IF condition.name \in DOMAIN named THEN CountLeaves(named[condition.name], named) ELSE 0)
    ELSE IF Len(condition.conditions) = 0 THEN 0
    ELSE CountLeaves(condition.conditions[1], named)
             + CountLeaves([condition EXCEPT !.conditions = Tail(@)], named)

Greater(a, b) == a.n > b.n \/ (a.n = b.n /\ EpsilonsOf(a) > EpsilonsOf(b))
Same(a, b) == a.n = b.n /\ EpsilonsOf(a) = EpsilonsOf(b)

ComparisonHolds(operator, a, b) ==
    CASE operator = "greaterThan" -> Greater(a, b)
      [] operator = "greaterThanInclusive" -> Greater(a, b) \/ Same(a, b)
      [] operator = "lessThan" -> Greater(b, a)
      [] operator = "lessThanInclusive" -> Greater(b, a) \/ Same(a, b)

\* C23: for numbers a and b the built-in comparison operators score >= 1 exactly
\* when the comparison holds (greaterThan iff a > b, greaterThanInclusive iff
\* a >= b, lessThan iff a < b, lessThanInclusive iff a <= b); the strict operators
\* score strictly below 1 when a = b; and a left-hand side that is not a number
\* (that does not convert to one) scores 0.
C23_ComparisonPassesIffItHolds ==
    (evaluated # NotEvaluated /\ missingLeaf.operator \in ComparisonOperators
        /\ missingLeaf.value.type = "number") =>
        LET a == defaultValue
            b == missingLeaf.value
            op == missingLeaf.operator
        IN /\ a.type = "number" =>
                 /\ evaluated.state = "scored"
                 /\ Geq(evaluated.score, One) <=> ComparisonHolds(op, a, b)
                 /\ (Same(a, b) /\ op \in {"greaterThan", "lessThan"}) => Lt(evaluated.score, One)
           /\ ToNumber(a).type = "NaN" => evaluated.state = "scored" /\ evaluated.score = Zero

\* the leaf {fact: score, operator: greaterThan, value: 80} evaluated on score = 81
Leaf81 ==
    /\ missingLeaf = [operator |-> "greaterThan", value |-> Num(80)]
    /\ defaultValue = Num(81)
    /\ evaluated # NotEvaluated

\* C24 (as the code has it): a leaf {fact: score, operator: greaterThan, value: 80}
\* evaluated with the fact score = 81 gets the score 1 and the result true.
C24_GreaterThan80On81Passes ==
    Leaf81 => evaluated.state = "scored" /\ evaluated.score = One /\ Geq(evaluated.score, One)

C24_Witness == Leaf81 /\ evaluated.state = "scored"

\* C24 (as stated): that leaf gets a score strictly less than 1 and result false.
C24_GreaterThan80On81Fails ==
    Leaf81 => Lt(evaluated.score, One) /\ ~Geq(evaluated.score, One)

\* ------------------------------------------------ claims: weights of references
\* the sub-conditions as evaluated, each with the weight its declaration in the
\* rule gives it
WithDeclaredWeights(evaluated_, declared) ==
    [i \in 1..Len(evaluated_) |->
        Child(evaluated_[i].score, WeightOf(declared[i]), NoPriority, NoPriority, 0)]

\* C25: in an `all` or `any` aggregate a condition-reference child
\* {condition: name, weight: w} contributes with its own declared weight w (1 when
\* omitted), whatever the weight of the named condition it resolves to: the score
\* of the node is the aggregate of its children's scores under the weights the
\* rule declares.
C25_ReferenceKeepsItsWeight ==
    \A x \in RuleResultsSoFar :
        LET declared == engine.rules[x.rule].conditions
            conds == WithDeclaredWeights(x.conditions.conditions, declared.conditions)
        IN (\E i \in 1..Len(declared.conditions) : declared.conditions[i].kind = "reference")
               => /\ declared.kind = "all" => x.score = EvaluateAll(conds)
                  /\ declared.kind = "any" => x.score = EvaluateAny(conds)

\* ------------------------------------------------ claims: runtime facts
\* C26: when run(runtimeFacts) receives a runtime fact whose id equals that of a
\* fact registered on the engine, every factValue lookup of that id during the run
\* returns the runtime fact's value, whether each of the two facts is constant or
\* dynamic, and never the value of the engine-registered fact.
C26_RuntimeFactOverEngineFact ==
    \A l \in overlay.returned : l[2] = "runtime"

\* ------------------------------------------------ claims: the priority buckets
\* C27: at the start of every run the priority buckets the engine evaluates are
\* the partition of the engine's current rule list by each rule's current
\* priority, highest priority first and in insertion order within a bucket, after
\* any sequence of addRule, updateRule, removeRule, Rule.setPriority on an added
\* rule, and earlier runs.
C27_BucketsAreNeverStale ==
    [][ruleList'.runs > ruleList.runs =>
          ruleList'.orderedSets = PrioritizeRulesAfresh(ruleList)]_vars

\* ------------------------------------------------ claims: after a rejection
\* the rules of the buckets below the bucket whose error rejected the run
BelowRejectedBucket == {r \in Rules : BucketOf(r) > BucketOf(runError.rule)}

RulesWithResult(results) == {results[i].rule : i \in 1..Len(results)}

\* C28: once an error raised while evaluating a rule of bucket N has rejected the
\* run future, no rule of a lower-priority bucket is evaluated, no further result
\* or event is appended to the almanac for those buckets and none of their
\* handlers is invoked.
C28_NothingRunsBelowRejectedBucket ==
    [][runFuture = "rejected" =>
          \A r \in BelowRejectedBucket :
              /\ rs[r] = "idle" => rs'[r] \in {"idle", "skipped"}
              /\ r \in RulesWithResult(ruleResults') => r \in RulesWithResult(ruleResults)
              /\ r \in Range(events'.success) => r \in Range(events.success)
              /\ r \in Range(events'.failure) => r \in Range(events.failure)
              /\ emitted'[r] = emitted[r]]_vars

\* ------------------------------------------------ claims: overlapping runs
\* C29: when two run() calls on one engine overlap in time and stop() is never
\* called, each call evaluates every rule of every bucket: the bundle it returns
\* from its fresh almanac has |results| + |failureResults| = |rules|.
C29_OverlappingRunsEvaluateEveryRule ==
    \A k \in Calls :
        LET c == overlapping.calls[k]
        IN c.phase = "done" /\ c.overlapped
               => Len(c.bundle.results) + Len(c.bundle.failureResults) = NumRules

\* ------------------------------------------------ claims: termination
\* C30: evaluating a rule terminates for every finite condition tree and every set
\* of named conditions, those that reference one another or themselves included:
\* realize never enters a named condition it is already realizing, the evaluation
\* does not end by exhausting the call stack, and so the future settles by the
\* evaluation itself.
C30_EvaluationTerminates ==
    /\ \A i, j \in 1..Len(realization.stack) :
           i # j => realization.stack[i] # realization.stack[j]
    /\ realization.error # "RangeError"

=============================================================================
